---- MODULE Spec2Model ----
(***************************************************************************)
(* Ledger consistency core of the billing backend: Party balances and Item *)
(* stocks (the universal Bardana item included) as Sale, Purchase and      *)
(* Payment documents are created, edited and deleted.                      *)
(*                                                                         *)
(* Representation.  Item.openingStock is a JavaScript number counted in    *)
(* bags; a transaction line carries kilograms and the handlers compute     *)
(* quantity / 30.  The model stores a stock as an integer number of        *)
(* 1/StockScale bags, so that quantity / 30 and the two-decimal rounding   *)
(* of PUT /items/bardana/stock are both exact; floating-point rounding     *)
(* error is not modelled.  A Party is identified by its (name, phone       *)
(* number) pair, which the model carries as one key.  Every request        *)
(* handler is one atomic action.                                           *)
(***************************************************************************)
EXTENDS Integers, Sequences, FiniteSets, TLC

\* ------------------------------------------------------------------ bounds
MaxOps == 3

\* ------------------------------------------------------- program constants
BagKg == 30
RoundScale == 100
StockScale == 3 * RoundScale
DefaultBalance == 0

\* ----------------------------------------------------------------- helpers
Max0(x) == IF x < 0 THEN 0 ELSE x

Without(f, k) == [x \in (DOMAIN f) \ {k} |-> f[x]]

\* quantity / 30, in stock units
QuantityInBags(q) == (q * StockScale) \div BagKg

RECURSIVE SumSeq(_)
SumSeq(s) == IF s = <<>> THEN 0 ELSE Head(s) + SumSeq(Tail(s))

\* items.reduce((sum, item) => sum + item.quantity, 0)
TotalKg(lines) == SumSeq([i \in DOMAIN lines |-> lines[i].quantity])

\* faulty variant: the line totals are stored as the caller sent them
KeepLines(lines) == lines

\* the pre('save') hook of Sale and Purchase: item.total = quantity * rate
RecalcLines(lines) ==
  [i \in DOMAIN lines |-> [lines[i] EXCEPT !.total = lines[i].quantity * lines[i].rate]]

\* ... and totalAmount = sum of the recomputed line totals
RecalcTotal(lines) == SumSeq([i \in DOMAIN lines |-> lines[i].quantity * lines[i].rate])

\* schema validation of the line subdocuments, run before the pre('save') hook:
\* total is required, and quantity, rate and total have min 0
NoTotal == -1
LinesValid(lines) ==
  /\ Len(lines) > 0
  /\ \A i \in DOMAIN lines :
       /\ lines[i].total # NoTotal
       /\ lines[i].total >= 0
       /\ lines[i].quantity >= 0
       /\ lines[i].rate >= 0

\* JSON.stringify(originalItems) !== JSON.stringify(items): the stored lines
\* (total recomputed) against the lines of the request body as sent
ItemsChanged(originalItems, lines) == originalItems # lines

\* --------------------------------------------------------------- variables
\* calls: the requests in flight when requests overlap, each with its position
\* between two awaits and what it has read so far
VARIABLES parties, items, sales, purchases, payments, payIndex, nextId, last, pre, calls

vars == <<parties, items, sales, purchases, payments, payIndex, nextId, last, pre, calls>>

db == [parties |-> parties, items |-> items, sales |-> sales,
       purchases |-> purchases, payments |-> payments]

NoId == 0
NoKey == "-"
NoBill == "-"

\* ------------------------------------------------------------------ Party
\* Party.findOne({name, phoneNumber}): the first match in natural order
FindParty(ps, key) ==
  LET m == {p \in DOMAIN ps : ps[p].key = key}
  IN  IF m = {} THEN NoId ELSE CHOOSE p \in m : \A q \in m : p <= q

\* Party.findOrCreate: the party store afterwards
FindOrCreateStore(ps, key, fresh) ==
  IF FindParty(ps, key) # NoId THEN ps
  ELSE ps @@ (fresh :> [key |-> key, balance |-> DefaultBalance])

\* Party.findOrCreate: the id of the party returned
FindOrCreateId(ps, key, fresh) ==
  IF FindParty(ps, key) # NoId THEN FindParty(ps, key) ELSE fresh

\* Party.updateBalance throws 'Party not found'
UpdateBalanceFails(ps, pid) == pid \notin DOMAIN ps

\* faulty variant: the result floored at 0
UpdateBalanceFloored(ps, pid, amount, operation) ==
  [ps EXCEPT ![pid].balance =
     Max0(IF operation = "add" THEN @ + amount
          ELSE IF operation = "subtract" THEN @ - amount
          ELSE IF operation = "set" THEN amount
          ELSE @)]

\* Party.updateBalance(partyId, amount, operation), when the party exists
UpdateBalance(ps, pid, amount, operation) ==
  [ps EXCEPT ![pid].balance =
     IF operation = "add" THEN @ + amount
     ELSE IF operation = "subtract" THEN @ - amount
     ELSE IF operation = "set" THEN amount
     ELSE @]

\* ------------------------------------------------------------------- Item
\* Item.findOne({isUniversal: true, productName: 'Bardana'})
BardanaIds(its) ==
  {i \in DOMAIN its : its[i].isUniversal /\ its[i].productName = "Bardana"}

HasBardana(its) == BardanaIds(its) # {}

FindBardana(its) == CHOOSE i \in BardanaIds(its) : TRUE

\* faulty variant: the floor at 0 is missing
DecreaseStockUnclamped(its, id, q) ==
  IF id \in DOMAIN its
  THEN [its EXCEPT ![id].openingStock = @ - QuantityInBags(q)]
  ELSE its

\* item.openingStock -= quantityInBags, floored at 0; a line whose item id
\* does not resolve is skipped
DecreaseStock(its, id, q) ==
  IF id \in DOMAIN its
  THEN [its EXCEPT ![id].openingStock = Max0(@ - QuantityInBags(q))]
  ELSE its

\* item.openingStock += quantityInBags
IncreaseStock(its, id, q) ==
  IF id \in DOMAIN its
  THEN [its EXCEPT ![id].openingStock = @ + QuantityInBags(q)]
  ELSE its

\* faulty variant: the original lines are not given back
IncreaseLinesSkipped(its, lines) == its

\* the per-line loops, each iteration reading the item afresh
RECURSIVE DecreaseLines(_, _)
DecreaseLines(its, lines) ==
  IF lines = <<>> THEN its
  ELSE DecreaseLines(DecreaseStock(its, Head(lines).id, Head(lines).quantity), Tail(lines))

RECURSIVE IncreaseLines(_, _)
IncreaseLines(its, lines) ==
  IF lines = <<>> THEN its
  ELSE IncreaseLines(IncreaseStock(its, Head(lines).id, Head(lines).quantity), Tail(lines))

\* the Bardana blocks: total kg of the batch, applied to the universal item
DecreaseBardana(its, kg) ==
  IF HasBardana(its) THEN DecreaseStock(its, FindBardana(its), kg) ELSE its

\* faulty variant: Bardana is not given back
IncreaseBardanaSkipped(its, kg) == its

IncreaseBardana(its, kg) ==
  IF HasBardana(its) THEN IncreaseStock(its, FindBardana(its), kg) ELSE its

\* ------------------------------------------------- invoice number strings
\* an invoiceNo is a decimal string, kept as its sequence of digits
RECURSIVE ToDigits(_)
ToDigits(n) == IF n < 10 THEN <<n>> ELSE ToDigits(n \div 10) \o <<n % 10>>

RECURSIVE ParseInt(_)
ParseInt(s) == IF s = <<>> THEN 0 ELSE ParseInt(SubSeq(s, 1, Len(s) - 1)) * 10 + s[Len(s)]

\* string order used by sort({invoiceNo: -1})
RECURSIVE StrLess(_, _)
StrLess(a, b) ==
  IF a = <<>> THEN b # <<>>
  ELSE IF b = <<>> THEN FALSE
  ELSE IF Head(a) # Head(b) THEN Head(a) < Head(b)
  ELSE StrLess(Tail(a), Tail(b))

\* Sale.generateNextInvoiceNumber
GenerateNextInvoiceNumber(ss) ==
  IF DOMAIN ss = {} THEN ToDigits(1)
  ELSE LET nos == {ss[s].invoiceNo : s \in DOMAIN ss}
           lastNo == CHOOSE a \in nos : \A b \in nos : b = a \/ StrLess(b, a)
       IN  ToDigits(ParseInt(lastNo) + 1)

\* the unique index on invoiceNo
InvoiceNoTaken(ss, no) == \E s \in DOMAIN ss : ss[s].invoiceNo = no

\* ------------------------------------------------------------ bookkeeping
\* the answer to the request just served, with the request's inputs, and the
\* stores as they were before it; allOk: no request so far was answered with
\* an error status
DoneBill(op, status, id, key, bill, lines, amount) ==
  /\ last' = [n |-> last.n + 1, op |-> op, status |-> status, id |-> id,
              key |-> key, bill |-> bill, lines |-> lines, amount |-> amount,
              operation |-> NoKey, allOk |-> (last.allOk /\ status < 400)]
  /\ pre' = [db |-> db, last |-> last]
  /\ UNCHANGED calls

Done(op, status, id, key, lines, amount) ==
  DoneBill(op, status, id, key, NoBill, lines, amount)

\* the same for a request that carries an amount and an operation
DoneOperation(op, status, id, amount, operation) ==
  /\ last' = [n |-> last.n + 1, op |-> op, status |-> status, id |-> id,
              key |-> NoKey, bill |-> NoBill, lines |-> <<>>, amount |-> amount,
              operation |-> operation, allOk |-> (last.allOk /\ status < 400)]
  /\ pre' = [db |-> db, last |-> last]
  /\ UNCHANGED calls

CanStep == last.n < MaxOps

\* ------------------------------------------------------------------- Sale
\* faulty variant: a line whose item id does not resolve ends the request in
\* the outer catch, with the Sale stored and no stock adjusted
SaleCreateAborting(key, lines) ==
  LET invoiceNo == GenerateNextInvoiceNumber(sales)
      ps1 == FindOrCreateStore(parties, key, nextId)
      pid == FindOrCreateId(parties, key, nextId)
      sid == nextId + 1
      sale == [invoiceNo |-> invoiceNo, partyId |-> pid,
               items |-> RecalcLines(lines), totalAmount |-> RecalcTotal(lines)]
      its1 == DecreaseLines(items, lines)
      its2 == DecreaseBardana(its1, TotalKg(lines))
  IN
  /\ CanStep
  /\ IF lines = <<>>
     THEN /\ Done("saleCreate", 400, NoId, key, lines, 0)
          /\ UNCHANGED <<parties, items, sales, nextId>>
     ELSE IF ~LinesValid(lines)
     THEN /\ parties' = ps1
          /\ nextId' = nextId + 2
          /\ Done("saleCreate", 400, NoId, key, lines, 0)
          /\ UNCHANGED <<items, sales>>
     ELSE IF InvoiceNoTaken(sales, invoiceNo)
     THEN /\ parties' = ps1
          /\ nextId' = nextId + 2
          /\ Done("saleCreate", 500, NoId, key, lines, 0)
          /\ UNCHANGED <<items, sales>>
     ELSE IF \E i \in DOMAIN lines : lines[i].id \notin DOMAIN items
     THEN /\ sales' = sales @@ (sid :> sale)
          /\ parties' = UpdateBalance(ps1, pid, sale.totalAmount, "add")
          /\ nextId' = nextId + 2
          /\ Done("saleCreate", 500, NoId, key, lines, 0)
          /\ UNCHANGED items
     ELSE /\ sales' = sales @@ (sid :> sale)
          /\ parties' = UpdateBalance(ps1, pid, sale.totalAmount, "add")
          /\ items' = its2
          /\ nextId' = nextId + 2
          /\ Done("saleCreate", 201, sid, key, lines, sale.totalAmount)
  /\ UNCHANGED <<purchases, payments, payIndex>>

\* POST /api/sales
SaleCreate(key, lines) ==
  LET invoiceNo == GenerateNextInvoiceNumber(sales)
      ps1 == FindOrCreateStore(parties, key, nextId)
      pid == FindOrCreateId(parties, key, nextId)
      sid == nextId + 1
      sale == [invoiceNo |-> invoiceNo, partyId |-> pid,
               items |-> RecalcLines(lines), totalAmount |-> RecalcTotal(lines)]
      its1 == DecreaseLines(items, lines)
      its2 == DecreaseBardana(its1, TotalKg(lines))
  IN
  /\ CanStep
  /\ IF lines = <<>>
     THEN /\ Done("saleCreate", 400, NoId, key, lines, 0)
          /\ UNCHANGED <<parties, items, sales, nextId>>
     ELSE IF ~LinesValid(lines)
     THEN /\ parties' = ps1
          /\ nextId' = nextId + 2
          /\ Done("saleCreate", 400, NoId, key, lines, 0)
          /\ UNCHANGED <<items, sales>>
     ELSE IF InvoiceNoTaken(sales, invoiceNo)
     THEN /\ parties' = ps1
          /\ nextId' = nextId + 2
          /\ Done("saleCreate", 500, NoId, key, lines, 0)
          /\ UNCHANGED <<items, sales>>
     ELSE /\ sales' = sales @@ (sid :> sale)
          /\ parties' = UpdateBalance(ps1, pid, sale.totalAmount, "add")
          /\ items' = its2
          /\ nextId' = nextId + 2
          /\ Done("saleCreate", 201, sid, key, lines, sale.totalAmount)
  /\ UNCHANGED <<purchases, payments, payIndex>>

\* faulty variant: the whole new total is added, not the difference
SaleUpdateFullTotal(id, given, lines) ==
  LET sale == sales[id]
      originalTotalAmount == sale.totalAmount
      originalItems == sale.items
      newItems == IF given THEN RecalcLines(lines) ELSE sale.items
      newTotal == IF newItems # <<>> THEN RecalcTotal(newItems) ELSE sale.totalAmount
      saved == [sale EXCEPT !.items = newItems, !.totalAmount = newTotal]
      balanceStep == sale.partyId # NoId /\ originalTotalAmount # newTotal
      its1 == IncreaseLines(items, originalItems)
      its2 == DecreaseLines(its1, lines)
  IN
  /\ CanStep
  /\ IF id \notin DOMAIN sales
     THEN /\ Done("saleUpdate", 404, id, NoKey, IF given THEN lines ELSE <<>>, 0)
          /\ UNCHANGED <<parties, items, sales>>
     ELSE IF given /\ ~LinesValid(lines)
     THEN /\ Done("saleUpdate", 400, id, NoKey, IF given THEN lines ELSE <<>>, 0)
          /\ UNCHANGED <<parties, items, sales>>
     ELSE IF balanceStep /\ UpdateBalanceFails(parties, sale.partyId)
     THEN /\ sales' = [sales EXCEPT ![id] = saved]
          /\ Done("saleUpdate", 500, id, NoKey, IF given THEN lines ELSE <<>>, newTotal)
          /\ UNCHANGED <<parties, items>>
     ELSE /\ sales' = [sales EXCEPT ![id] = saved]
          /\ parties' = IF balanceStep
                        THEN UpdateBalance(parties, sale.partyId,
                                           newTotal, "add")
                        ELSE parties
          /\ items' = IF given /\ ItemsChanged(originalItems, lines) THEN its2 ELSE items
          /\ Done("saleUpdate", 200, id, NoKey, IF given THEN lines ELSE <<>>, newTotal)
  /\ UNCHANGED <<purchases, payments, payIndex, nextId>>

\* PUT /api/sales/:id
SaleUpdate(id, given, lines) ==
  LET sale == sales[id]
      originalTotalAmount == sale.totalAmount
      originalItems == sale.items
      newItems == IF given THEN RecalcLines(lines) ELSE sale.items
      newTotal == IF newItems # <<>> THEN RecalcTotal(newItems) ELSE sale.totalAmount
      saved == [sale EXCEPT !.items = newItems, !.totalAmount = newTotal]
      balanceStep == sale.partyId # NoId /\ originalTotalAmount # newTotal
      its1 == IncreaseLines(items, originalItems)
      its2 == DecreaseLines(its1, lines)
  IN
  /\ CanStep
  /\ IF id \notin DOMAIN sales
     THEN /\ Done("saleUpdate", 404, id, NoKey, IF given THEN lines ELSE <<>>, 0)
          /\ UNCHANGED <<parties, items, sales>>
     ELSE IF given /\ ~LinesValid(lines)
     THEN /\ Done("saleUpdate", 400, id, NoKey, IF given THEN lines ELSE <<>>, 0)
          /\ UNCHANGED <<parties, items, sales>>
     ELSE IF balanceStep /\ UpdateBalanceFails(parties, sale.partyId)
     THEN /\ sales' = [sales EXCEPT ![id] = saved]
          /\ Done("saleUpdate", 500, id, NoKey, IF given THEN lines ELSE <<>>, newTotal)
          /\ UNCHANGED <<parties, items>>
     ELSE /\ sales' = [sales EXCEPT ![id] = saved]
          /\ parties' = IF balanceStep
                        THEN UpdateBalance(parties, sale.partyId,
                                           newTotal - originalTotalAmount, "add")
                        ELSE parties
          /\ items' = IF given /\ ItemsChanged(originalItems, lines) THEN its2 ELSE items
          /\ Done("saleUpdate", 200, id, NoKey, IF given THEN lines ELSE <<>>, newTotal)
  /\ UNCHANGED <<purchases, payments, payIndex, nextId>>

\* DELETE /api/sales/:id
SaleDelete(id) ==
  LET sale == sales[id]
      its1 == IncreaseLines(items, sale.items)
      its2 == IncreaseBardana(its1, TotalKg(sale.items))
  IN
  /\ CanStep
  /\ IF id \notin DOMAIN sales
     THEN /\ Done("saleDelete", 404, id, NoKey, <<>>, 0)
          /\ UNCHANGED <<parties, items, sales>>
     ELSE IF sale.partyId # NoId /\ UpdateBalanceFails(parties, sale.partyId)
     THEN /\ items' = its2
          /\ Done("saleDelete", 500, id, NoKey, <<>>, 0)
          /\ UNCHANGED <<parties, sales>>
     ELSE /\ items' = its2
          /\ parties' = IF sale.partyId # NoId
                        THEN UpdateBalance(parties, sale.partyId, sale.totalAmount, "subtract")
                        ELSE parties
          /\ sales' = Without(sales, id)
          /\ Done("saleDelete", 200, id, NoKey, <<>>, sale.totalAmount)
  /\ UNCHANGED <<purchases, payments, payIndex, nextId>>

\* --------------------------------------------------------------- Purchase
\* Purchase.isBillNumberExists(billNo): called by the routes, defined in no
\* source file; taken to be the existence test its name and the routes' error
\* message state
IsBillNumberExists(pu, billNo) == \E p \in DOMAIN pu : pu[p].billNo = billNo

\* the unique index on billNo
BillNoTaken(pu, billNo, self) == \E p \in (DOMAIN pu) \ {self} : pu[p].billNo = billNo

\* validatePurchaseRequest: the items array and each line's quantity and rate
PurchaseRequestValid(lines) ==
  /\ Len(lines) > 0
  /\ \A i \in DOMAIN lines : lines[i].quantity > 0 /\ lines[i].rate > 0

\* faulty variant: the net kg difference applied without the floor
AdjustBardanaUnclamped(its, originalItems, lines) ==
  IF HasBardana(its)
  THEN [its EXCEPT ![FindBardana(its)].openingStock =
          @ + QuantityInBags(TotalKg(lines) - TotalKg(originalItems))]
  ELSE its

\* faulty variant: a full subtract pass for the original kg, then a full add
\* pass for the new kg
AdjustBardanaTwoPasses(its, originalItems, lines) ==
  IncreaseBardana(DecreaseBardana(its, TotalKg(originalItems)), TotalKg(lines))

\* PUT /api/purchases/:id, the Bardana block: the net kg difference, floored at 0
AdjustBardanaByDifference(its, originalItems, lines) ==
  IF HasBardana(its)
  THEN [its EXCEPT ![FindBardana(its)].openingStock =
          Max0(@ + QuantityInBags(TotalKg(lines) - TotalKg(originalItems)))]
  ELSE its

\* faulty variant: neither the existence check nor the unique index stops a
\* second Purchase with a stored billNo
PurchaseCreateUnchecked(billNo, key, lines) ==
  LET ps1 == FindOrCreateStore(parties, key, nextId)
      pid == FindOrCreateId(parties, key, nextId)
      uid == nextId + 1
      purchase == [billNo |-> billNo, partyId |-> pid,
                   items |-> RecalcLines(lines), totalAmount |-> RecalcTotal(lines)]
      its1 == IncreaseLines(items, lines)
      its2 == IncreaseBardana(its1, TotalKg(lines))
  IN
  /\ CanStep
  /\ IF ~PurchaseRequestValid(lines)
     THEN /\ DoneBill("purchaseCreate", 400, NoId, key, billNo, lines, 0)
          /\ UNCHANGED <<parties, items, purchases, nextId>>
     ELSE IF ~LinesValid(lines)
     THEN /\ parties' = ps1
          /\ nextId' = nextId + 2
          /\ DoneBill("purchaseCreate", 400, NoId, key, billNo, lines, 0)
          /\ UNCHANGED <<items, purchases>>
     ELSE /\ purchases' = purchases @@ (uid :> purchase)
          /\ parties' = UpdateBalance(ps1, pid, purchase.totalAmount, "subtract")
          /\ items' = its2
          /\ nextId' = nextId + 2
          /\ DoneBill("purchaseCreate", 201, uid, key, billNo, lines, purchase.totalAmount)
  /\ UNCHANGED <<sales, payments, payIndex>>

\* POST /api/purchases
PurchaseCreate(billNo, key, lines) ==
  LET ps1 == FindOrCreateStore(parties, key, nextId)
      pid == FindOrCreateId(parties, key, nextId)
      uid == nextId + 1
      purchase == [billNo |-> billNo, partyId |-> pid,
                   items |-> RecalcLines(lines), totalAmount |-> RecalcTotal(lines)]
      its1 == IncreaseLines(items, lines)
      its2 == IncreaseBardana(its1, TotalKg(lines))
  IN
  /\ CanStep
  /\ IF ~PurchaseRequestValid(lines)
     THEN /\ DoneBill("purchaseCreate", 400, NoId, key, billNo, lines, 0)
          /\ UNCHANGED <<parties, items, purchases, nextId>>
     ELSE IF IsBillNumberExists(purchases, billNo)
     THEN /\ DoneBill("purchaseCreate", 400, NoId, key, billNo, lines, 0)
          /\ UNCHANGED <<parties, items, purchases, nextId>>
     ELSE IF ~LinesValid(lines)
     THEN /\ parties' = ps1
          /\ nextId' = nextId + 2
          /\ DoneBill("purchaseCreate", 400, NoId, key, billNo, lines, 0)
          /\ UNCHANGED <<items, purchases>>
     ELSE IF BillNoTaken(purchases, billNo, NoId)
     THEN /\ parties' = ps1
          /\ nextId' = nextId + 2
          /\ DoneBill("purchaseCreate", 500, NoId, key, billNo, lines, 0)
          /\ UNCHANGED <<items, purchases>>
     ELSE /\ purchases' = purchases @@ (uid :> purchase)
          /\ parties' = UpdateBalance(ps1, pid, purchase.totalAmount, "subtract")
          /\ items' = its2
          /\ nextId' = nextId + 2
          /\ DoneBill("purchaseCreate", 201, uid, key, billNo, lines, purchase.totalAmount)
  /\ UNCHANGED <<sales, payments, payIndex>>

\* faulty variant: a billNo of another Purchase is not looked for, neither by
\* the route nor by the unique index
PurchaseUpdateUnchecked(id, billNo, given, lines) ==
  LET purchase == purchases[id]
      originalTotalAmount == purchase.totalAmount
      originalItems == purchase.items
      newBill == IF billNo # NoBill THEN billNo ELSE purchase.billNo
      newItems == IF given THEN RecalcLines(lines) ELSE purchase.items
      newTotal == IF newItems # <<>> THEN RecalcTotal(newItems) ELSE purchase.totalAmount
      saved == [purchase EXCEPT !.billNo = newBill, !.items = newItems,
                                !.totalAmount = newTotal]
      balanceStep == purchase.partyId # NoId /\ originalTotalAmount # newTotal
      its1 == DecreaseLines(items, originalItems)
      its2 == IncreaseLines(its1, lines)
      its3 == AdjustBardanaByDifference(its2, originalItems, lines)
  IN
  /\ CanStep
  /\ IF id \notin DOMAIN purchases
     THEN /\ DoneBill("purchaseUpdate", 404, id, NoKey, billNo, IF given THEN lines ELSE <<>>, 0)
          /\ UNCHANGED <<parties, items, purchases>>
     ELSE IF given /\ ~LinesValid(lines)
     THEN /\ DoneBill("purchaseUpdate", 400, id, NoKey, billNo, IF given THEN lines ELSE <<>>, 0)
          /\ UNCHANGED <<parties, items, purchases>>
     ELSE IF balanceStep /\ UpdateBalanceFails(parties, purchase.partyId)
     THEN /\ purchases' = [purchases EXCEPT ![id] = saved]
          /\ DoneBill("purchaseUpdate", 500, id, NoKey, billNo, IF given THEN lines ELSE <<>>, newTotal)
          /\ UNCHANGED <<parties, items>>
     ELSE /\ purchases' = [purchases EXCEPT ![id] = saved]
          /\ parties' = IF balanceStep
                        THEN UpdateBalance(parties, purchase.partyId,
                                           newTotal - originalTotalAmount, "subtract")
                        ELSE parties
          /\ items' = IF given /\ ItemsChanged(originalItems, lines) THEN its3 ELSE items
          /\ DoneBill("purchaseUpdate", 200, id, NoKey, billNo, IF given THEN lines ELSE <<>>, newTotal)
  /\ UNCHANGED <<sales, payments, payIndex, nextId>>

\* PUT /api/purchases/:id
PurchaseUpdate(id, billNo, given, lines) ==
  LET purchase == purchases[id]
      originalTotalAmount == purchase.totalAmount
      originalItems == purchase.items
      newBill == IF billNo # NoBill THEN billNo ELSE purchase.billNo
      newItems == IF given THEN RecalcLines(lines) ELSE purchase.items
      newTotal == IF newItems # <<>> THEN RecalcTotal(newItems) ELSE purchase.totalAmount
      saved == [purchase EXCEPT !.billNo = newBill, !.items = newItems,
                                !.totalAmount = newTotal]
      balanceStep == purchase.partyId # NoId /\ originalTotalAmount # newTotal
      its1 == DecreaseLines(items, originalItems)
      its2 == IncreaseLines(its1, lines)
      its3 == AdjustBardanaByDifference(its2, originalItems, lines)
  IN
  /\ CanStep
  /\ IF id \notin DOMAIN purchases
     THEN /\ DoneBill("purchaseUpdate", 404, id, NoKey, billNo, IF given THEN lines ELSE <<>>, 0)
          /\ UNCHANGED <<parties, items, purchases>>
     ELSE IF billNo # NoBill /\ billNo # purchase.billNo
             /\ IsBillNumberExists(purchases, billNo)
     THEN /\ DoneBill("purchaseUpdate", 400, id, NoKey, billNo, IF given THEN lines ELSE <<>>, 0)
          /\ UNCHANGED <<parties, items, purchases>>
     ELSE IF given /\ ~LinesValid(lines)
     THEN /\ DoneBill("purchaseUpdate", 400, id, NoKey, billNo, IF given THEN lines ELSE <<>>, 0)
          /\ UNCHANGED <<parties, items, purchases>>
     ELSE IF BillNoTaken(purchases, newBill, id)
     THEN /\ DoneBill("purchaseUpdate", 500, id, NoKey, billNo, IF given THEN lines ELSE <<>>, 0)
          /\ UNCHANGED <<parties, items, purchases>>
     ELSE IF balanceStep /\ UpdateBalanceFails(parties, purchase.partyId)
     THEN /\ purchases' = [purchases EXCEPT ![id] = saved]
          /\ DoneBill("purchaseUpdate", 500, id, NoKey, billNo, IF given THEN lines ELSE <<>>, newTotal)
          /\ UNCHANGED <<parties, items>>
     ELSE /\ purchases' = [purchases EXCEPT ![id] = saved]
          /\ parties' = IF balanceStep
                        THEN UpdateBalance(parties, purchase.partyId,
                                           newTotal - originalTotalAmount, "subtract")
                        ELSE parties
          /\ items' = IF given /\ ItemsChanged(originalItems, lines) THEN its3 ELSE items
          /\ DoneBill("purchaseUpdate", 200, id, NoKey, billNo, IF given THEN lines ELSE <<>>, newTotal)
  /\ UNCHANGED <<sales, payments, payIndex, nextId>>

\* faulty variant: the lines are taken back, Bardana is not
ReversePurchaseLinesOnly(its, purchase) == DecreaseLines(its, purchase.items)

\* the stock part of a purchase removal: every line, then Bardana, floored at 0
ReversePurchaseStock(its, purchase) ==
  DecreaseBardana(DecreaseLines(its, purchase.items), TotalKg(purchase.items))

\* DELETE /api/purchases/:id
PurchaseDelete(id) ==
  LET purchase == purchases[id]
      its2 == ReversePurchaseStock(items, purchase)
  IN
  /\ CanStep
  /\ IF id \notin DOMAIN purchases
     THEN /\ Done("purchaseDelete", 404, id, NoKey, <<>>, 0)
          /\ UNCHANGED <<parties, items, purchases>>
     ELSE IF purchase.partyId # NoId /\ UpdateBalanceFails(parties, purchase.partyId)
     THEN /\ items' = its2
          /\ Done("purchaseDelete", 500, id, NoKey, <<>>, 0)
          /\ UNCHANGED <<parties, purchases>>
     ELSE /\ items' = its2
          /\ parties' = IF purchase.partyId # NoId
                        THEN UpdateBalance(parties, purchase.partyId,
                                           purchase.totalAmount, "add")
                        ELSE parties
          /\ purchases' = Without(purchases, id)
          /\ Done("purchaseDelete", 200, id, NoKey, <<>>, purchase.totalAmount)
  /\ UNCHANGED <<sales, payments, payIndex, nextId>>

\* Purchase.find({_id: {$in: purchaseIds}}): the matches in natural order
RECURSIVE InOrder(_)
InOrder(S) ==
  IF S = {} THEN <<>>
  ELSE LET m == CHOOSE x \in S : \A y \in S : x <= y
       IN  <<m>> \o InOrder(S \ {m})

\* DELETE /api/purchases/bulk, the loop over the purchases found: the stores
\* when the loop ends, or when Party.updateBalance throws
RECURSIVE BulkLoop(_, _, _)
BulkLoop(st, pu, order) ==
  IF order = <<>> THEN st
  ELSE LET purchase == pu[Head(order)]
           its2 == ReversePurchaseStock(st.items, purchase)
       IN  IF purchase.partyId # NoId /\ UpdateBalanceFails(st.parties, purchase.partyId)
           THEN [parties |-> st.parties, items |-> its2, thrown |-> TRUE]
           ELSE BulkLoop([parties |-> IF purchase.partyId # NoId
                                      THEN UpdateBalance(st.parties, purchase.partyId,
                                                         purchase.totalAmount, "add")
                                      ELSE st.parties,
                          items |-> its2, thrown |-> FALSE],
                         pu, Tail(order))

PurchaseBulkDelete(ids) ==
  LET found == ids \cap DOMAIN purchases
      out == BulkLoop([parties |-> parties, items |-> items, thrown |-> FALSE],
                      purchases, InOrder(found))
  IN
  /\ CanStep
  /\ IF ids = {}
     THEN /\ Done("purchaseBulkDelete", 400, NoId, NoKey, <<>>, 0)
          /\ UNCHANGED <<parties, items, purchases>>
     ELSE IF found = {}
     THEN /\ Done("purchaseBulkDelete", 404, NoId, NoKey, <<>>, 0)
          /\ UNCHANGED <<parties, items, purchases>>
     ELSE IF out.thrown
     THEN /\ parties' = out.parties
          /\ items' = out.items
          /\ Done("purchaseBulkDelete", 500, NoId, NoKey, <<>>, 0)
          /\ UNCHANGED purchases
     ELSE /\ parties' = out.parties
          /\ items' = out.items
          /\ purchases' = [p \in (DOMAIN purchases) \ ids |-> purchases[p]]
          /\ Done("purchaseBulkDelete", 200, NoId, NoKey, <<>>, Cardinality(found))
  /\ UNCHANGED <<sales, payments, payIndex, nextId>>

\* ---------------------------------------------------------------- Payment
\* a paymentNo is PAY-IN or PAY-OUT, a timestamp and a random part; the model
\* keeps the prefix, whether it has the fallback format, and the rest as n
PaymentNo(type, fallback, n) == [prefix |-> type, fallback |-> fallback, n |-> n]

PaymentNoExists(pays, no) == \E i \in DOMAIN pays : pays[i].paymentNo = no

\* Payment.generateUniquePaymentNumber: a candidate that is not stored is
\* returned; when every one of the attempts draws a stored number the fallback
\* is returned unchecked
GenerateUniquePaymentNumber(pays, type, candidate, fallback) ==
  IF ~PaymentNoExists(pays, PaymentNo(type, FALSE, candidate))
  THEN PaymentNo(type, FALSE, candidate)
  ELSE PaymentNo(type, TRUE, fallback)

PaymentIndex(pays, id) == CHOOSE i \in DOMAIN pays : pays[i].id = id

PaymentExists(pays, id) == \E i \in DOMAIN pays : pays[i].id = id

RemovePayment(pays, id) == SelectSeq(pays, LAMBDA x : x.id # id)

\* Payment.updatePartyBalance throws
UpdatePartyBalanceFails(ps, payment) ==
  payment.partyId # NoId /\ UpdateBalanceFails(ps, payment.partyId)

\* faulty variant: the amount is added whatever the type
UpdatePartyBalanceAdd(ps, payment) ==
  IF payment.partyId = NoId THEN ps
  ELSE UpdateBalance(ps, payment.partyId, payment.amount, "add")

\* Payment.updatePartyBalance(payment), when nothing throws
UpdatePartyBalance(ps, payment) ==
  IF payment.partyId = NoId THEN ps
  ELSE UpdateBalance(ps, payment.partyId, payment.amount,
                     IF payment.type = "payment-in" THEN "subtract"
                     ELSE IF payment.type = "payment-out" THEN "add"
                     ELSE "none")

\* validatePaymentData and the schema: the type and a positive amount
PaymentTypes == {"payment-in", "payment-out"}

\* POST /api/payments
PaymentCreate(type, key, amount, candidate, fallback) ==
  LET ps1 == FindOrCreateStore(parties, key, nextId)
      pid == FindOrCreateId(parties, key, nextId)
      yid == nextId + 1
      paymentNo == GenerateUniquePaymentNumber(payments, type, candidate, fallback)
      payment == [id |-> yid, paymentNo |-> paymentNo, type |-> type,
                  amount |-> amount, partyId |-> pid]
  IN
  /\ CanStep
  /\ IF type \notin PaymentTypes \/ amount <= 0
     THEN /\ Done("paymentCreate", 400, NoId, key, <<>>, amount)
          /\ UNCHANGED <<parties, payments, nextId>>
     ELSE IF payIndex /\ PaymentNoExists(payments, paymentNo)
     THEN /\ parties' = ps1
          /\ nextId' = nextId + 2
          /\ Done("paymentCreate", 500, NoId, key, <<>>, amount)
          /\ UNCHANGED payments
     ELSE /\ payments' = Append(payments, payment)
          /\ parties' = UpdatePartyBalance(ps1, payment)
          /\ nextId' = nextId + 2
          /\ Done("paymentCreate", 201, yid, key, <<>>, amount)
  /\ UNCHANGED <<items, sales, purchases, payIndex>>

\* faulty variant: the original amount is reversed by the payment's type
PaymentUpdateTypeAware(id, given, amount) ==
  LET i == PaymentIndex(payments, id)
      payment == payments[i]
      originalAmount == payment.amount
      originalPartyId == payment.partyId
      saved == [payment EXCEPT !.amount = IF given THEN amount ELSE @]
      reversed == UpdateBalance(parties, originalPartyId, originalAmount,
                                IF payment.type = "payment-in" THEN "add" ELSE "subtract")
  IN
  /\ CanStep
  /\ IF ~PaymentExists(payments, id)
     THEN /\ Done("paymentUpdate", 404, id, NoKey, <<>>, 0)
          /\ UNCHANGED <<parties, payments>>
     ELSE IF given /\ amount <= 0
     THEN /\ Done("paymentUpdate", 400, id, NoKey, <<>>, amount)
          /\ UNCHANGED <<parties, payments>>
     ELSE /\ payments' = [payments EXCEPT ![i] = saved]
          /\ parties' = IF originalAmount # saved.amount /\ saved.partyId # NoId
                           /\ ~UpdateBalanceFails(parties, originalPartyId)
                        THEN UpdatePartyBalance(reversed, saved)
                        ELSE parties
          /\ Done("paymentUpdate", 200, id, NoKey, <<>>, saved.amount)
  /\ UNCHANGED <<items, sales, purchases, payIndex, nextId>>

\* PUT /api/payments/:id
PaymentUpdate(id, given, amount) ==
  LET i == PaymentIndex(payments, id)
      payment == payments[i]
      originalAmount == payment.amount
      originalPartyId == payment.partyId
      saved == [payment EXCEPT !.amount = IF given THEN amount ELSE @]
      reversed == UpdateBalance(parties, originalPartyId, originalAmount, "add")
  IN
  /\ CanStep
  /\ IF ~PaymentExists(payments, id)
     THEN /\ Done("paymentUpdate", 404, id, NoKey, <<>>, 0)
          /\ UNCHANGED <<parties, payments>>
     ELSE IF given /\ amount <= 0
     THEN /\ Done("paymentUpdate", 400, id, NoKey, <<>>, amount)
          /\ UNCHANGED <<parties, payments>>
     ELSE /\ payments' = [payments EXCEPT ![i] = saved]
          /\ parties' = IF originalAmount # saved.amount /\ saved.partyId # NoId
                           /\ ~UpdateBalanceFails(parties, originalPartyId)
                        THEN UpdatePartyBalance(reversed, saved)
                        ELSE parties
          /\ Done("paymentUpdate", 200, id, NoKey, <<>>, saved.amount)
  /\ UNCHANGED <<items, sales, purchases, payIndex, nextId>>

\* faulty variant: the amount is reversed by the payment's type
PaymentDeleteTypeAware(id) ==
  LET payment == payments[PaymentIndex(payments, id)]
  IN
  /\ CanStep
  /\ IF ~PaymentExists(payments, id)
     THEN /\ Done("paymentDelete", 404, id, NoKey, <<>>, 0)
          /\ UNCHANGED <<parties, payments>>
     ELSE /\ parties' = IF payment.partyId # NoId
                           /\ ~UpdateBalanceFails(parties, payment.partyId)
                        THEN UpdateBalance(parties, payment.partyId, payment.amount,
                                           IF payment.type = "payment-in"
                                           THEN "add" ELSE "subtract")
                        ELSE parties
          /\ payments' = RemovePayment(payments, id)
          /\ Done("paymentDelete", 200, id, NoKey, <<>>, payment.amount)
  /\ UNCHANGED <<items, sales, purchases, payIndex, nextId>>

\* DELETE /api/payments/:id
PaymentDelete(id) ==
  LET payment == payments[PaymentIndex(payments, id)]
  IN
  /\ CanStep
  /\ IF ~PaymentExists(payments, id)
     THEN /\ Done("paymentDelete", 404, id, NoKey, <<>>, 0)
          /\ UNCHANGED <<parties, payments>>
     ELSE /\ parties' = IF payment.partyId # NoId
                           /\ ~UpdateBalanceFails(parties, payment.partyId)
                        THEN UpdateBalance(parties, payment.partyId, payment.amount, "add")
                        ELSE parties
          /\ payments' = RemovePayment(payments, id)
          /\ Done("paymentDelete", 200, id, NoKey, <<>>, payment.amount)
  /\ UNCHANGED <<items, sales, purchases, payIndex, nextId>>

\* faulty variant: the last pushed is kept
KeepLast(pays) ==
  SelectSeq(pays, LAMBDA x :
    \A j \in DOMAIN pays :
      pays[j].paymentNo = x.paymentNo => PaymentIndex(pays, x.id) >= j)

\* Payment.cleanupDuplicates: of the records grouped under one paymentNo the
\* first pushed is kept and the others are deleted
KeepFirst(pays) ==
  SelectSeq(pays, LAMBDA x :
    \A j \in DOMAIN pays :
      pays[j].paymentNo = x.paymentNo => PaymentIndex(pays, x.id) <= j)

CleanedCount(pays) == Len(pays) - Len(KeepFirst(pays))

\* POST /api/payments/cleanup, and cleanupDuplicatePayments at startup
CleanupDuplicates ==
  /\ CanStep
  /\ payments' = KeepFirst(payments)
  /\ Done("cleanup", 200, NoId, NoKey, <<>>, CleanedCount(payments))
  /\ UNCHANGED <<parties, items, sales, purchases, payIndex, nextId>>

\* ---------------------------------------------------------- Bardana stock
\* Math.round(x * 100) / 100 on a stock in stock units
RoundUnit == StockScale \div RoundScale
Round2(u) == RoundUnit * ((2 * u + RoundUnit) \div (2 * RoundUnit))

\* PUT /api/items/bardana/stock
BardanaStock(operation, quantity) ==
  LET b == FindBardana(items)
      newStock == IF operation = "add"
                  THEN Round2(items[b].openingStock + QuantityInBags(quantity))
                  ELSE Max0(Round2(items[b].openingStock - QuantityInBags(quantity)))
  IN
  /\ CanStep
  /\ IF quantity = 0 \/ operation \notin {"add", "subtract"}
     THEN /\ Done("bardanaStock", 400, NoId, NoKey, <<>>, quantity)
          /\ UNCHANGED items
     ELSE IF ~HasBardana(items)
     THEN /\ Done("bardanaStock", 404, NoId, NoKey, <<>>, quantity)
          /\ UNCHANGED items
     ELSE IF newStock < 0
     THEN /\ Done("bardanaStock", 500, NoId, NoKey, <<>>, quantity)
          /\ UNCHANGED items
     ELSE /\ items' = [items EXCEPT ![b].openingStock = newStock]
          /\ Done("bardanaStock", 200, NoId, NoKey, <<>>, quantity)
  /\ UNCHANGED <<parties, sales, purchases, payments, payIndex, nextId>>

\* ------------------------------------------------------------- Item routes
\* the _id a new Item is given: never one that was used before
ItemIds == <<"n1", "n2", "n3", "n4", "n5", "n6", "n7", "n8", "n9", "n10", "n11", "n12">>

\* the 'i' flag of the product name regex
LowerCase(name) ==
  CASE name = "Bardana" -> "bardana"
    [] name = "Sugar" -> "sugar"
    [] name = "Rice" -> "rice"
    [] name = "Wheat" -> "wheat"
    [] name = "Sack" -> "sack"
    [] OTHER -> name

\* Item.findOne({productName: /^name$/i, _id: {$ne: id}}) finds an Item
NameExists(its, name, id) ==
  \E i \in (DOMAIN its) \ {id} : LowerCase(its[i].productName) = LowerCase(name)

\* the unique index on productName
NameIndexed(its, name) == \E i \in DOMAIN its : its[i].productName = name

\* validateItem: openingStock must be a number that is not negative
ItemRequestValid(openingStock) == openingStock >= 0

\* POST /api/items
ItemCreate(productName, openingStock, isUniversal) ==
  /\ CanStep
  /\ nextId <= Len(ItemIds)
  /\ IF ~ItemRequestValid(openingStock)
     THEN /\ DoneBill("itemCreate", 400, NoId, NoKey, productName, <<>>, openingStock)
          /\ UNCHANGED <<items, nextId>>
     ELSE IF NameExists(items, productName, NoKey)
     THEN /\ DoneBill("itemCreate", 400, NoId, NoKey, productName, <<>>, openingStock)
          /\ UNCHANGED <<items, nextId>>
     ELSE /\ items' = items @@ (ItemIds[nextId] :>
                        [productName |-> productName, openingStock |-> openingStock,
                         isUniversal |-> isUniversal])
          /\ nextId' = nextId + 1
          /\ DoneBill("itemCreate", 201, NoId, ItemIds[nextId], productName, <<>>, openingStock)
  /\ UNCHANGED <<parties, sales, purchases, payments, payIndex>>

\* PUT /api/items/:id
ItemUpdate(id, productName, openingStock) ==
  /\ CanStep
  /\ IF ~ItemRequestValid(openingStock)
     THEN /\ DoneBill("itemUpdate", 400, NoId, id, productName, <<>>, openingStock)
          /\ UNCHANGED items
     ELSE IF id \notin DOMAIN items
     THEN /\ DoneBill("itemUpdate", 404, NoId, id, productName, <<>>, openingStock)
          /\ UNCHANGED items
     ELSE IF productName # items[id].productName /\ NameExists(items, productName, id)
     THEN /\ DoneBill("itemUpdate", 400, NoId, id, productName, <<>>, openingStock)
          /\ UNCHANGED items
     ELSE /\ items' = [items EXCEPT ![id].productName = productName,
                                    ![id].openingStock = openingStock]
          /\ DoneBill("itemUpdate", 200, NoId, id, productName, <<>>, openingStock)
  /\ UNCHANGED <<parties, sales, purchases, payments, payIndex, nextId>>

\* DELETE /api/items/:id
ItemDelete(id) ==
  /\ CanStep
  /\ IF id \notin DOMAIN items
     THEN /\ DoneBill("itemDelete", 404, NoId, id, NoBill, <<>>, 0)
          /\ UNCHANGED items
     ELSE IF items[id].isUniversal
     THEN /\ DoneBill("itemDelete", 400, NoId, id, NoBill, <<>>, 0)
          /\ UNCHANGED items
     ELSE /\ items' = Without(items, id)
          /\ DoneBill("itemDelete", 200, NoId, id, NoBill, <<>>, 0)
  /\ UNCHANGED <<parties, sales, purchases, payments, payIndex, nextId>>

\* ------------------------------------------------------------------ Party
\* DELETE /api/parties/:id
PartyDelete(id) ==
  /\ CanStep
  /\ IF id \notin DOMAIN parties
     THEN /\ Done("partyDelete", 404, id, NoKey, <<>>, 0)
          /\ UNCHANGED parties
     ELSE /\ parties' = Without(parties, id)
          /\ Done("partyDelete", 200, id, NoKey, <<>>, 0)
  /\ UNCHANGED <<items, sales, purchases, payments, payIndex, nextId>>

\* PUT /api/parties/:id; the name, phone, address and email fields are left
\* out; given: the body carries a balance
PartyUpdate(id, given, balance) ==
  /\ CanStep
  /\ IF id \notin DOMAIN parties
     THEN /\ Done("partyUpdate", 404, id, NoKey, <<>>, 0)
          /\ UNCHANGED parties
     ELSE /\ parties' = IF given
                        THEN [parties EXCEPT ![id].balance = balance]
                        ELSE parties
          /\ Done("partyUpdate", 200, id, NoKey, <<>>, IF given THEN balance ELSE 0)
  /\ UNCHANGED <<items, sales, purchases, payments, payIndex, nextId>>

\* PATCH /api/parties/:id/balance
BalanceOperations == {"add", "subtract", "set"}
PartyPatchBalance(id, amount, operation) ==
  /\ CanStep
  /\ IF operation \notin BalanceOperations
     THEN /\ DoneOperation("partyBalance", 400, id, amount, operation)
          /\ UNCHANGED parties
     ELSE IF UpdateBalanceFails(parties, id)
     THEN /\ DoneOperation("partyBalance", 404, id, amount, operation)
          /\ UNCHANGED parties
     ELSE /\ parties' = UpdateBalance(parties, id, amount, operation)
          /\ DoneOperation("partyBalance", 200, id, amount, operation)
  /\ UNCHANGED <<items, sales, purchases, payments, payIndex, nextId>>

\* ------------------------------------------------------------------ inputs
Bags(n) == n * StockScale

Line(id, q, r, t) == [id |-> id, quantity |-> q, rate |-> r, total |-> t]

Keys == {"A", "B"}

\* ids a request may name: those of the stored documents and one that resolves
\* to nothing
IdsOf(store) == (DOMAIN store) \cup {NoId}

\* the item store the process finds at startup: two products and Bardana
ItemStore(s1, sb) ==
  ("i1" :> [productName |-> "Rice", openingStock |-> s1, isUniversal |-> FALSE]) @@
  ("i2" :> [productName |-> "Wheat", openingStock |-> Bags(5), isUniversal |-> FALSE]) @@
  ("bd" :> [productName |-> "Bardana", openingStock |-> sb, isUniversal |-> TRUE])

InitStocks == {Bags(2), Bags(5)}

NoLast == [n |-> 0, op |-> "start", status |-> 0, id |-> NoId,
           key |-> NoKey, bill |-> NoBill, lines |-> <<>>, amount |-> 0,
           operation |-> NoKey, allOk |-> TRUE]

InitWith(its, pays, idx) ==
  /\ parties = <<>>
  /\ items = its
  /\ sales = <<>>
  /\ purchases = <<>>
  /\ payments = pays
  /\ payIndex = idx
  /\ nextId = Len(pays) + 1
  /\ last = NoLast
  /\ pre = [db |-> [parties |-> <<>>, items |-> its, sales |-> <<>>,
                    purchases |-> <<>>, payments |-> pays],
            last |-> NoLast]
  /\ calls = <<>>

Init == \E s1 \in InitStocks, sb \in InitStocks : InitWith(ItemStore(s1, sb), <<>>, TRUE)

\* ----------------------------------------------------- sale specification
SaleLines ==
  { <<Line("i1", 30, 1, 30)>>,
    <<Line("i1", 60, 1, 60)>>,
    <<Line("i1", 90, 2, 7)>>,
    <<Line("i1", 30, 1, 30), Line("i2", 60, 1, 60)>>,
    <<Line("i1", 60, 1, 60), Line("i1", 30, 2, 0)>>,
    <<Line("bd", 30, 1, 30)>>,
    <<Line("bd", 60, 1, 60)>>,
    <<Line("i9", 30, 1, 30)>>,
    <<Line("i1", 30, 1, NoTotal)>> }

SaleCreateAny == \E k \in {"A"}, ls \in SaleLines \cup {<<>>} : SaleCreate(k, ls)
SaleUpdateLines ==
  { <<Line("i1", 60, 1, 60)>>,
    <<Line("i1", 90, 2, 7)>>,
    <<Line("bd", 60, 1, 60)>>,
    <<Line("i1", 30, 1, NoTotal)>> }

SaleUpdateAny == \E id \in IdsOf(sales) :
                   \/ \E ls \in SaleUpdateLines : SaleUpdate(id, TRUE, ls)
                   \/ SaleUpdate(id, FALSE, <<>>)
SaleDeleteAny == \E id \in IdsOf(sales) : SaleDelete(id)
PartyDeleteAny == \E id \in IdsOf(parties) : PartyDelete(id)

NextSale == SaleCreateAny \/ SaleUpdateAny \/ SaleDeleteAny \/ PartyDeleteAny

SpecSale == Init /\ [][NextSale]_vars

\* ------------------------------------------------- properties: Sale stock
\* kg a request's lines take from item x: its own lines, and for Bardana the
\* whole batch as well
KgOf(x, lines) ==
  SumSeq([i \in DOMAIN lines |-> IF lines[i].id = x THEN lines[i].quantity ELSE 0])

KgTaken(its, x, lines) ==
  KgOf(x, lines) + (IF x \in BardanaIds(its) THEN TotalKg(lines) ELSE 0)

PlainLines(its, lines) ==
  /\ \A i \in DOMAIN lines : lines[i].id \notin BardanaIds(its)
  /\ \A i, j \in DOMAIN lines : lines[i].id = lines[j].id => i = j

BalanceBefore(ps, p) == IF p \in DOMAIN ps THEN ps[p].balance ELSE DefaultBalance

SaleCreated == last.op = "saleCreate" /\ last.status = 201

\* the step from a successful Sale create to the successful delete of that Sale
CreateThenDelete ==
  /\ SaleCreated
  /\ last'.op = "saleDelete" /\ last'.status = 200 /\ last'.id = last.id

\* the create clamped no stock at 0
NothingClamped(its, lines) ==
  \A x \in DOMAIN its : its[x].openingStock >= QuantityInBags(KgTaken(its, x, lines))

RoundTripRestores ==
  /\ \A i \in DOMAIN last.lines :
       last.lines[i].id \in DOMAIN pre.db.items =>
         items'[last.lines[i].id].openingStock
           = pre.db.items[last.lines[i].id].openingStock
  /\ \A b \in BardanaIds(pre.db.items) :
       items'[b].openingStock = pre.db.items[b].openingStock
  /\ parties'[sales[last.id].partyId].balance
       = BalanceBefore(pre.db.parties, sales[last.id].partyId)

\* C2, as stated: creating a Sale and deleting it straight away restores every
\* line item's stock, Bardana's stock and the party's balance, for every
\* starting stock level and every line quantity
C2_Original == [][CreateThenDelete => RoundTripRestores]_vars

\* C2, amended: creating a Sale and deleting it straight away restores every
\* line item's stock, Bardana's stock and the party's balance, provided the
\* create clamped no stock at 0
C2_RoundTrip ==
  [][(CreateThenDelete /\ NothingClamped(pre.db.items, last.lines))
       => (RoundTripRestores /\ items' = pre.db.items)]_vars

C2_Witness ==
  /\ last.op = "saleDelete" /\ last.status = 200
  /\ pre.last.op = "saleCreate" /\ pre.last.status = 201 /\ pre.last.id = last.id
  /\ pre.last.lines = <<Line("i1", 30, 1, 30), Line("i2", 60, 1, 60)>>
  /\ items = ItemStore(Bags(5), Bags(5))
  /\ \E p \in DOMAIN parties : parties[p].balance = 0

\* C3, as stated: a created Sale takes q/30 bags, clamped at 0, from the item
\* of each line and the full (sum of quantities)/30 bags from Bardana
C3_Original ==
  (SaleCreated /\ PlainLines(pre.db.items, last.lines)) =>
    /\ \A i \in DOMAIN last.lines :
         last.lines[i].id \in DOMAIN pre.db.items =>
           items[last.lines[i].id].openingStock
             = Max0(pre.db.items[last.lines[i].id].openingStock
                      - QuantityInBags(last.lines[i].quantity))
    /\ \A b \in BardanaIds(pre.db.items) :
         items[b].openingStock
           = pre.db.items[b].openingStock - QuantityInBags(TotalKg(last.lines))

\* C3, amended: a created Sale takes from every item the kg of the lines that
\* name it, and from Bardana the kg of the whole batch besides, each divided by
\* 30 and each clamped at 0, Bardana's too
C3_StockAfterCreate ==
  SaleCreated =>
    /\ DOMAIN items = DOMAIN pre.db.items
    /\ \A x \in DOMAIN items :
         items[x].openingStock
           = Max0(pre.db.items[x].openingStock
                    - QuantityInBags(KgTaken(pre.db.items, x, last.lines)))

C3_Witness ==
  /\ SaleCreated
  /\ last.lines = <<Line("i1", 90, 2, 7)>>
  /\ pre.db.items["i1"].openingStock = Bags(2) /\ items["i1"].openingStock = 0
  /\ pre.db.items["bd"].openingStock = Bags(5) /\ items["bd"].openingStock = Bags(2)

\* the step from a successful create of a one-line 30 kg Sale to the
\* successful update of that Sale to one line of 60 kg of the same item
Create30ThenUpdate60(x) ==
  /\ SaleCreated
  /\ Len(last.lines) = 1 /\ last.lines[1].id = x /\ last.lines[1].quantity = 30
  /\ last'.op = "saleUpdate" /\ last'.status = 200 /\ last'.id = last.id
  /\ Len(last'.lines) = 1 /\ last'.lines[1].id = x /\ last'.lines[1].quantity = 60
  /\ NothingClamped(pre.db.items, last'.lines)

OneFurtherBag(x) ==
  /\ items'[x].openingStock = items[x].openingStock - Bags(1)
  /\ items'[x].openingStock = pre.db.items[x].openingStock - Bags(2)

\* C4, as stated: for any one item
C4_Original ==
  [][\A x \in DOMAIN items : Create30ThenUpdate60(x) => OneFurtherBag(x)]_vars

\* C4, amended: a Sale of 30 kg of one item other than Bardana, updated to
\* 60 kg of the same item with nothing clamping, takes exactly 1 further bag
\* from the item, which ends 2 bags below its stock before the create
C4_UpdateTakesDifference ==
  [][\A x \in (DOMAIN items) \ BardanaIds(items) :
       Create30ThenUpdate60(x) => OneFurtherBag(x)]_vars

C4_Witness ==
  /\ last.op = "saleUpdate" /\ last.status = 200
  /\ pre.last.op = "saleCreate" /\ pre.last.status = 201 /\ pre.last.id = last.id
  /\ pre.last.lines = <<Line("i1", 30, 1, 30)>>
  /\ last.lines = <<Line("i1", 60, 1, 60)>>
  /\ pre.db.items["i1"].openingStock = Bags(4)
  /\ items["i1"].openingStock = Bags(3)

\* C9: every stored Sale has each line's total = quantity * rate and
\* totalAmount = the sum of quantity * rate over its lines
C9_TotalsDerived ==
  \A s \in DOMAIN sales :
    /\ \A i \in DOMAIN sales[s].items :
         sales[s].items[i].total = sales[s].items[i].quantity * sales[s].items[i].rate
    /\ sales[s].totalAmount
         = SumSeq([i \in DOMAIN sales[s].items |->
                     sales[s].items[i].quantity * sales[s].items[i].rate])

C9_Witness ==
  /\ last.op = "saleUpdate" /\ last.status = 200
  /\ last.lines = <<Line("i1", 90, 2, 7)>>
  /\ sales[last.id].items[1].total = 180
  /\ sales[last.id].totalAmount = 180

\* ------------------------------------------------- further specifications
MaxLegacy == 3

OneStore == ItemStore(Bags(2), Bags(2))

\* ids a bulk request may carry: any of the stored ones, or one that matches
\* nothing
IdSetsOf(store) == ((SUBSET DOMAIN store) \ {{}}) \cup {{NoId}}

PaymentAmounts == {10, 25}

PaymentCreateAny ==
  \E t \in PaymentTypes, k \in Keys, a \in PaymentAmounts \cup {0} :
    PaymentCreate(t, k, a, 1, 9)
PaymentUpdateAny ==
  \E i \in DOMAIN payments, g \in BOOLEAN : PaymentUpdate(payments[i].id, g, 25)
PaymentUpdateNone == PaymentUpdate(NoId, TRUE, 25)
PaymentDeleteAny ==
  \E id \in {payments[i].id : i \in DOMAIN payments} \cup {NoId} : PaymentDelete(id)

NextPayment == PaymentCreateAny \/ PaymentUpdateAny \/ PaymentUpdateNone \/ PaymentDeleteAny

SpecPayment == InitWith(OneStore, <<>>, TRUE) /\ [][NextPayment]_vars

\* purchases
PurchaseLines ==
  { <<Line("i1", 30, 2, 60)>>,
    <<Line("i1", 90, 1, 90), Line("bd", 30, 1, 30)>>,
    <<Line("i1", 0, 1, 0)>> }

PurchaseCreateAny ==
  \E b \in {"b1", "b2"}, k \in Keys, ls \in PurchaseLines : PurchaseCreate(b, k, ls)
PurchaseUpdateAny ==
  \E id \in IdsOf(purchases) :
    \/ PurchaseUpdate(id, NoBill, TRUE, <<Line("i1", 60, 2, 120)>>)
    \/ PurchaseUpdate(id, "b2", FALSE, <<>>)
    \/ PurchaseUpdate(id, "b2", TRUE, <<Line("i1", 60, 2, 120)>>)
PurchaseDeleteAny == \E id \in IdsOf(purchases) : PurchaseDelete(id)
PurchaseBulkDeleteAny == \E ids \in IdSetsOf(purchases) \cup {{}} : PurchaseBulkDelete(ids)

NextPurchase ==
  \/ PurchaseCreateAny
  \/ PurchaseUpdateAny
  \/ PurchaseDeleteAny
  \/ PurchaseBulkDeleteAny
  \/ PartyDeleteAny

SpecPurchase == InitWith(OneStore, <<>>, TRUE) /\ [][NextPurchase]_vars

\* the payments collection as cleanupDuplicatePayments may find it: records
\* written before the unique index, some of them under one paymentNo; the
\* index is in force only if it could be built
LegacyPayment(i, n) ==
  [id |-> i, paymentNo |-> PaymentNo("payment-in", FALSE, n), type |-> "payment-in",
   amount |-> 10, partyId |-> NoId]

LegacyPayments ==
  UNION { { [i \in 1..n |-> LegacyPayment(i, f[i])] : f \in [1..n -> {1, 2}] } :
          n \in 0..MaxLegacy }

NoDuplicates(pays) ==
  \A i, j \in DOMAIN pays : pays[i].paymentNo = pays[j].paymentNo => i = j

InitCleanup == \E pays \in LegacyPayments : InitWith(OneStore, pays, NoDuplicates(pays))

PaymentCreateIn == \E c \in {1, 3} : PaymentCreate("payment-in", "A", 10, c, 9)

NextCleanup == CleanupDuplicates \/ PaymentCreateIn \/ PaymentDeleteAny

SpecCleanup == InitCleanup /\ [][NextCleanup]_vars

\* stock
StockSaleCreate ==
  \E ls \in {<<Line("i1", 90, 1, 90)>>, <<Line("bd", 60, 1, 60)>>} : SaleCreate("A", ls)
StockSaleUpdate == \E id \in IdsOf(sales) : SaleUpdate(id, TRUE, <<Line("i2", 180, 1, 180)>>)
StockPurchaseCreate == PurchaseCreate("b1", "A", <<Line("i1", 90, 1, 90)>>)
StockPurchaseUpdate ==
  \E id \in IdsOf(purchases) : PurchaseUpdate(id, NoBill, TRUE, <<Line("i2", 30, 1, 30)>>)
StockPurchaseBulkDelete == \E ids \in IdSetsOf(purchases) : PurchaseBulkDelete(ids)
BardanaStockAny ==
  \E o \in {"add", "subtract"}, q \in {-200, 1, 200} : BardanaStock(o, q)

NextStock ==
  \/ StockSaleCreate
  \/ StockSaleUpdate
  \/ SaleDeleteAny
  \/ StockPurchaseCreate
  \/ StockPurchaseUpdate
  \/ PurchaseDeleteAny
  \/ StockPurchaseBulkDelete
  \/ BardanaStockAny

SpecStock == Init /\ [][NextStock]_vars

\* the ledger: Sale, Purchase and Payment create, update and delete
LedgerSaleCreate ==
  \E k \in Keys, ls \in {<<Line("i1", 30, 1, 30)>>, <<Line("i1", 90, 2, 7)>>} :
    SaleCreate(k, ls)
LedgerSaleUpdate == \E id \in DOMAIN sales : SaleUpdate(id, TRUE, <<Line("i1", 60, 1, 60)>>)
LedgerSaleDelete == \E id \in DOMAIN sales : SaleDelete(id)
LedgerPurchaseCreate ==
  \E b \in {"b1", "b2"}, k \in Keys : PurchaseCreate(b, k, <<Line("i1", 30, 2, 60)>>)
LedgerPurchaseUpdate ==
  \E id \in DOMAIN purchases : PurchaseUpdate(id, NoBill, TRUE, <<Line("i1", 60, 2, 120)>>)
LedgerPurchaseDelete == \E id \in DOMAIN purchases : PurchaseDelete(id)
LedgerPaymentCreate ==
  \E t \in PaymentTypes, k \in Keys : PaymentCreate(t, k, 10, 1, 9)
LedgerPaymentUpdate == \E i \in DOMAIN payments : PaymentUpdate(payments[i].id, TRUE, 25)
LedgerPaymentDelete == \E i \in DOMAIN payments : PaymentDelete(payments[i].id)

NextLedger ==
  \/ LedgerSaleCreate
  \/ LedgerSaleUpdate
  \/ LedgerSaleDelete
  \/ LedgerPurchaseCreate
  \/ LedgerPurchaseUpdate
  \/ LedgerPurchaseDelete
  \/ LedgerPaymentCreate
  \/ LedgerPaymentUpdate
  \/ LedgerPaymentDelete

SpecLedger == InitWith(OneStore, <<>>, TRUE) /\ [][NextLedger]_vars

\* the ledger routes together with party removal, bulk purchase removal,
\* the Bardana stock route and the duplicate cleanup
Next ==
  \/ NextLedger
  \/ PurchaseBulkDeleteAny
  \/ PartyDeleteAny
  \/ BardanaStockAny
  \/ CleanupDuplicates

Spec == InitWith(OneStore, <<>>, TRUE) /\ [][Next]_vars

\* ------------------------------------------------ properties: the balance
SalesTotal(p) ==
  LET S == {s \in DOMAIN sales : sales[s].partyId = p}
      order == InOrder(S)
  IN  SumSeq([i \in DOMAIN order |-> sales[order[i]].totalAmount])

PurchasesTotal(p) ==
  LET S == {u \in DOMAIN purchases : purchases[u].partyId = p}
      order == InOrder(S)
  IN  SumSeq([i \in DOMAIN order |-> purchases[order[i]].totalAmount])

PaymentsTotal(p, type) ==
  SumSeq([i \in DOMAIN payments |->
            IF payments[i].partyId = p /\ payments[i].type = type
            THEN payments[i].amount ELSE 0])

RunningSum(p) ==
  DefaultBalance + SalesTotal(p) - PurchasesTotal(p)
    - PaymentsTotal(p, "payment-in") + PaymentsTotal(p, "payment-out")

\* C1: after any sequence of Sale, Purchase and Payment creates, updates and
\* deletes that all succeeded, each Party's balance is its initial balance
\* plus its existing Sales' totals, minus its existing Purchases' totals,
\* minus its existing payment-in amounts, plus its existing payment-out
\* amounts
C1_BalanceIsRunningSum ==
  last.allOk => \A p \in DOMAIN parties : parties[p].balance = RunningSum(p)

PaymentCreated == last.op = "paymentCreate" /\ last.status = 201

CreatedPayment == payments[PaymentIndex(payments, last.id)]

\* C5: a Payment create of amount A changes the resolved party's balance by
\* -A for payment-in and by +A for payment-out, and changes no other party's
\* balance and no Item's stock
C5_PaymentMovesBalance ==
  PaymentCreated =>
    LET p == CreatedPayment.partyId
        A == last.amount
    IN  /\ p \in DOMAIN parties
        /\ CreatedPayment.type = "payment-in" =>
             parties[p].balance = BalanceBefore(pre.db.parties, p) - A
        /\ CreatedPayment.type = "payment-out" =>
             parties[p].balance = BalanceBefore(pre.db.parties, p) + A
        /\ \A q \in (DOMAIN pre.db.parties) \ {p} :
             q \in DOMAIN parties /\ parties[q].balance = pre.db.parties[q].balance
        /\ (DOMAIN parties) \subseteq (DOMAIN pre.db.parties) \cup {p}
        /\ \A x \in DOMAIN items :
             items[x].openingStock = pre.db.items[x].openingStock

C5_Witness ==
  /\ PaymentCreated
  /\ CreatedPayment.type = "payment-in" /\ last.amount = 25
  /\ CreatedPayment.partyId \in DOMAIN pre.db.parties
  /\ pre.db.parties[CreatedPayment.partyId].balance = 10
  /\ parties[CreatedPayment.partyId].balance = -15
  /\ \E q \in DOMAIN pre.db.parties :
       q # CreatedPayment.partyId /\ pre.db.parties[q].balance # 0

\* ------------------------------------------- properties: duplicate billNo
DuplicateBillCreate ==
  /\ last.op = "purchaseCreate"
  /\ \E u \in DOMAIN pre.db.purchases : pre.db.purchases[u].billNo = last.bill

\* C6: a Purchase create whose billNo is that of a stored Purchase is
\* rejected: no second Purchase is stored, and no Party's balance and no
\* Item's stock, Bardana's included, changes
C6_DuplicateBillRejected ==
  DuplicateBillCreate =>
    /\ last.status >= 400
    /\ purchases = pre.db.purchases
    /\ \A p \in DOMAIN pre.db.parties :
         p \in DOMAIN parties /\ parties[p].balance = pre.db.parties[p].balance
    /\ \A p \in DOMAIN parties : parties[p].balance = BalanceBefore(pre.db.parties, p)
    /\ \A x \in DOMAIN items : items[x].openingStock = pre.db.items[x].openingStock

C6_Witness ==
  /\ DuplicateBillCreate
  /\ PurchaseRequestValid(last.lines) /\ LinesValid(last.lines)
  /\ last.status = 400
  /\ \E u \in DOMAIN purchases :
       /\ purchases[u].billNo = last.bill
       /\ purchases[u].partyId \in DOMAIN parties
       /\ parties[purchases[u].partyId].balance = -60
       /\ FindParty(parties, last.key) # purchases[u].partyId

\* ---------------------------------------- properties: duplicate paymentNo
\* before[i] is the first created of the records under its paymentNo
FirstCreated(before, i) ==
  \A k \in DOMAIN before :
    before[k].paymentNo = before[i].paymentNo => before[k].id >= before[i].id

\* C7: after cleanupDuplicates no two stored Payments have the same
\* paymentNo; of the records that shared a paymentNo exactly the first
\* created remains, and a Payment whose paymentNo was unique is untouched
C7_CleanupLeavesFirst ==
  last.op = "cleanup" =>
    /\ NoDuplicates(payments)
    /\ \A i \in DOMAIN pre.db.payments :
         FirstCreated(pre.db.payments, i)
           <=> (\E j \in DOMAIN payments : payments[j] = pre.db.payments[i])
    /\ \A j \in DOMAIN payments :
         \E i \in DOMAIN pre.db.payments : payments[j] = pre.db.payments[i]

C7_Witness ==
  /\ last.op = "cleanup" /\ last.amount = 1
  /\ Len(pre.db.payments) = 3 /\ Len(payments) = 2
  /\ pre.db.payments[1].paymentNo = pre.db.payments[3].paymentNo
  /\ pre.db.payments[1].paymentNo # pre.db.payments[2].paymentNo
  /\ payments = <<pre.db.payments[1], pre.db.payments[2]>>

\* -------------------------------------------- properties: stock floor
\* C8: every Item's openingStock, Bardana's included, is >= 0 after any
\* sequence of Sale and Purchase creates, updates and deletes, bulk Purchase
\* deletes and Bardana stock adjustments
C8_StockNeverNegative == \A x \in DOMAIN items : items[x].openingStock >= 0

C8_Witness ==
  /\ last.op = "purchaseUpdate" /\ last.status = 200
  /\ TotalKg(last.lines) < TotalKg(pre.db.purchases[last.id].items)
  /\ pre.db.items["bd"].openingStock
       < QuantityInBags(TotalKg(pre.db.purchases[last.id].items) - TotalKg(last.lines))
  /\ items["bd"].openingStock = 0

\* ------------------------------------- properties: a failing balance step
PartyGone(doc) == doc.partyId # NoId /\ doc.partyId \notin DOMAIN pre.db.parties

\* the last request was an update or a delete of a stored Sale or Purchase
\* whose balance step had to fail: the linked Party was no longer stored
BalanceStepFailed ==
  \/ /\ last.op = "saleDelete" /\ last.id \in DOMAIN pre.db.sales
     /\ PartyGone(pre.db.sales[last.id])
  \/ /\ last.op = "purchaseDelete" /\ last.id \in DOMAIN pre.db.purchases
     /\ PartyGone(pre.db.purchases[last.id])
  \/ /\ last.op = "saleUpdate" /\ last.id \in DOMAIN pre.db.sales
     /\ PartyGone(pre.db.sales[last.id])
     /\ sales[last.id].totalAmount # pre.db.sales[last.id].totalAmount
  \/ /\ last.op = "purchaseUpdate" /\ last.id \in DOMAIN pre.db.purchases
     /\ PartyGone(pre.db.purchases[last.id])
     /\ purchases[last.id].totalAmount # pre.db.purchases[last.id].totalAmount

PrimaryMutationDone ==
  /\ last.op = "saleDelete" => last.id \notin DOMAIN sales
  /\ last.op = "purchaseDelete" => last.id \notin DOMAIN purchases
  /\ last.op = "saleUpdate" => sales[last.id].items = RecalcLines(last.lines)
  /\ last.op = "purchaseUpdate" => purchases[last.id].items = RecalcLines(last.lines)

\* C10: when the balance step of a Sale or Purchase update or delete fails,
\* the request still reports success and the save or the removal takes effect
C10_FailureSwallowed ==
  BalanceStepFailed => (last.status < 400 /\ PrimaryMutationDone)

\* ------------------------------------------------ the create requests
\* request bodies of a create: well-formed ones, one with a line whose item
\* id resolves to nothing, and ill-formed ones (no total on the line, a
\* quantity of 0, no line at all)
CreateLines ==
  { <<Line("i1", 30, 1, 30)>>,
    <<Line("i9", 30, 1, 30), Line("i1", 60, 1, 60)>>,
    <<Line("i1", 30, 1, NoTotal)>>,
    <<Line("i1", 0, 1, 0)>>,
    <<>> }

CreateSale == \E k \in Keys, ls \in CreateLines : SaleCreate(k, ls)
CreatePurchase ==
  \E b \in {"b1", "b2"}, k \in Keys, ls \in CreateLines : PurchaseCreate(b, k, ls)
CreatePayment ==
  \E t \in PaymentTypes \cup {"refund"}, k \in Keys, a \in {0, 10} :
    PaymentCreate(t, k, a, 1, 9)

NextCreate == CreateSale \/ CreatePurchase \/ CreatePayment

SpecCreate == InitWith(OneStore, <<>>, TRUE) /\ [][NextCreate]_vars

\* ------------------------------------- properties: a rejected create
\* the last request was a create answered with a validation rejection
ValidationRejected ==
  /\ last.op \in {"saleCreate", "purchaseCreate", "paymentCreate"}
  /\ last.status = 400
  /\ ~DuplicateBillCreate

\* C11: a Sale, Purchase or Payment create that ends in a validation
\* rejection writes nothing: the Party, Item, Sale, Purchase and Payment
\* stores are the same after the request as before it
C11_RejectionWritesNothing == ValidationRejected => db = pre.db

\* ------------------------------------------------------ the party routes
PartyFromPayment == \E k \in Keys : PaymentCreate("payment-out", k, 10, 1, 9)
PartyUpdateAny == \E id \in IdsOf(parties), g \in BOOLEAN : PartyUpdate(id, g, 7)
PartyPatchBalanceAny ==
  \E id \in IdsOf(parties), a \in {-5, 25}, o \in BalanceOperations \cup {"multiply"} :
    PartyPatchBalance(id, a, o)

NextParty == PartyFromPayment \/ PartyUpdateAny \/ PartyPatchBalanceAny \/ PartyDeleteAny

SpecParty == InitWith(OneStore, <<>>, TRUE) /\ [][NextParty]_vars

\* ------------------------------------- properties: Party.updateBalance
\* the requests whose handlers write a balance through Party.updateBalance
UpdateBalanceCallers ==
  {"saleCreate", "saleUpdate", "saleDelete",
   "purchaseCreate", "purchaseUpdate", "purchaseDelete", "purchaseBulkDelete",
   "paymentCreate", "paymentUpdate", "paymentDelete", "partyBalance"}

\* C12: every change of a stored Party's balance is made by
\* Party.updateBalance, never by a handler assigning the field
C12_OnlyUpdateBalanceWrites ==
  \A p \in (DOMAIN parties) \cap (DOMAIN pre.db.parties) :
    parties[p].balance # pre.db.parties[p].balance => last.op \in UpdateBalanceCallers

\* C13: Party.updateBalance fails with 'Party not found' and changes no Party
\* when the id does not resolve; otherwise the balance becomes old + amount
\* for add, old - amount for subtract and amount for set, unclamped, and no
\* other Party changes
C13_UpdateBalance ==
  (last.op = "partyBalance" /\ last.operation \in BalanceOperations) =>
    IF last.id \notin DOMAIN pre.db.parties
    THEN last.status = 404 /\ parties = pre.db.parties
    ELSE /\ last.status = 200
         /\ DOMAIN parties = DOMAIN pre.db.parties
         /\ \A q \in (DOMAIN parties) \ {last.id} : parties[q] = pre.db.parties[q]
         /\ parties[last.id].key = pre.db.parties[last.id].key
         /\ last.operation = "add" =>
              parties[last.id].balance = pre.db.parties[last.id].balance + last.amount
         /\ last.operation = "subtract" =>
              parties[last.id].balance = pre.db.parties[last.id].balance - last.amount
         /\ last.operation = "set" => parties[last.id].balance = last.amount

C13_Witness ==
  /\ last.op = "partyBalance" /\ last.status = 200
  /\ last.operation = "subtract" /\ last.amount = 25
  /\ pre.db.parties[last.id].balance = 10
  /\ parties[last.id].balance = -15
  /\ Cardinality(DOMAIN parties) = 2

C13_WitnessNotFound ==
  /\ last.op = "partyBalance" /\ last.status = 404 /\ last.id = NoId
  /\ pre.db.parties # <<>>

\* ------------------------------- properties: Bardana on a Sale update
\* the last request was a successful Sale update that changed the item list,
\* no line of the old or of the new list naming Bardana itself
SaleItemsUpdated ==
  /\ last.op = "saleUpdate" /\ last.status = 200 /\ last.lines # <<>>
  /\ ItemsChanged(pre.db.sales[last.id].items, last.lines)
  /\ PlainLines(pre.db.items, pre.db.sales[last.id].items)
  /\ PlainLines(pre.db.items, last.lines)

\* C14: a Sale update that changes the item list gives Bardana back the
\* original lines' total kg and takes the new lines' total kg, so that the
\* Sale's share of Bardana's decrease is (new total kg)/30 bags
C14_SaleUpdateMovesBardana ==
  SaleItemsUpdated =>
    \A b \in BardanaIds(items) :
      items[b].openingStock
        = Max0(pre.db.items[b].openingStock
                 + QuantityInBags(TotalKg(pre.db.sales[last.id].items))
                 - QuantityInBags(TotalKg(last.lines)))

\* --------------------------- properties: Payment update and delete
\* the Payment the last request named, as it was stored before the request
PaymentBefore == pre.db.payments[PaymentIndex(pre.db.payments, last.id)]

\* the last request was a successful Payment update that changed the amount
\* of a Payment whose party is stored
PaymentAmountUpdated ==
  /\ last.op = "paymentUpdate" /\ last.status = 200
  /\ last.amount # PaymentBefore.amount
  /\ PaymentBefore.partyId \in DOMAIN pre.db.parties

PaymentDeleted ==
  /\ last.op = "paymentDelete"
  /\ PaymentExists(pre.db.payments, last.id)

C16_WitnessPartyGone ==
  /\ PaymentDeleted
  /\ PaymentBefore.partyId # NoId
  /\ PaymentBefore.partyId \notin DOMAIN pre.db.parties
  /\ last.status = 200 /\ payments = <<>>

\* ------------------------- properties: the balance on an update
\* every Party is stored as before, its balance moved by delta if it is p
BalancesMoved(p, delta) ==
  /\ DOMAIN parties = DOMAIN pre.db.parties
  /\ \A q \in DOMAIN parties :
       parties[q].balance
         = pre.db.parties[q].balance + (IF q = p THEN delta ELSE 0)

\* C17: a Sale update whose recomputed total differs from the stored one
\* moves the linked party's balance by +(new - old), a Purchase update by
\* -(new - old); with the total unchanged or no party linked no balance
\* changes
C17_UpdateAppliesDifference ==
  /\ (last.op = "saleUpdate" /\ last.status = 200) =>
       LET old == pre.db.sales[last.id]
           new == sales[last.id]
       IN  /\ last.lines # <<>> => new.totalAmount = RecalcTotal(last.lines)
           /\ BalancesMoved(old.partyId, new.totalAmount - old.totalAmount)
  /\ (last.op = "purchaseUpdate" /\ last.status = 200) =>
       LET old == pre.db.purchases[last.id]
           new == purchases[last.id]
       IN  /\ last.lines # <<>> => new.totalAmount = RecalcTotal(last.lines)
           /\ BalancesMoved(old.partyId, -(new.totalAmount - old.totalAmount))

C17_Witness ==
  /\ last.op = "saleUpdate" /\ last.status = 200
  /\ pre.db.sales[last.id].totalAmount = 180 /\ sales[last.id].totalAmount = 60
  /\ pre.db.parties[sales[last.id].partyId].balance = 120
  /\ parties[sales[last.id].partyId].balance = 0

C17_WitnessPurchase ==
  /\ last.op = "purchaseUpdate" /\ last.status = 200
  /\ pre.db.purchases[last.id].totalAmount = 60 /\ purchases[last.id].totalAmount = 120
  /\ pre.db.parties[purchases[last.id].partyId].balance = -60
  /\ parties[purchases[last.id].partyId].balance = -120

C17_WitnessUnchanged ==
  /\ last.op = "saleUpdate" /\ last.status = 200
  /\ pre.db.sales[last.id].totalAmount = sales[last.id].totalAmount
  /\ pre.db.parties[sales[last.id].partyId].balance # 0

\* ----------------------------- properties: stock on a Purchase update
\* the last request was a successful Purchase update that changed the items
PurchaseItemsUpdated ==
  /\ last.op = "purchaseUpdate" /\ last.status = 200 /\ last.lines # <<>>
  /\ ItemsChanged(pre.db.purchases[last.id].items, last.lines)

\* the stock of x after the original lines were taken back, floored at 0, and
\* the new lines were added
AfterLinePasses(x, original, new) ==
  Max0(pre.db.items[x].openingStock - QuantityInBags(KgOf(x, original)))
    + QuantityInBags(KgOf(x, new))

\* C18: a Purchase update that changes the item list decreases each original
\* line's item by old quantity/30, floored at 0, increases each new line's
\* item by new quantity/30, and changes Bardana once by (new total kg -
\* original total kg)/30, floored at 0
C18_PurchaseUpdateStock ==
  PurchaseItemsUpdated =>
    LET original == pre.db.purchases[last.id].items
        new == last.lines
    IN  \A x \in DOMAIN items :
          items[x].openingStock
            = IF x \in BardanaIds(pre.db.items)
              THEN Max0(AfterLinePasses(x, original, new)
                          + QuantityInBags(TotalKg(new) - TotalKg(original)))
              ELSE AfterLinePasses(x, original, new)

\* Bardana held less than the original total, so that two full passes would
\* have left it higher than the single change does
C18_Witness ==
  /\ PurchaseItemsUpdated
  /\ TotalKg(pre.db.purchases[last.id].items) = 90 /\ TotalKg(last.lines) = 30
  /\ pre.db.items["bd"].openingStock = 0
  /\ items["bd"].openingStock = 0
  /\ items["i1"].openingStock = pre.db.items["i1"].openingStock - Bags(3)
  /\ items["i2"].openingStock = pre.db.items["i2"].openingStock + Bags(1)

\* ------------------------------ properties: Purchase create then delete
\* the step from a successful Purchase create to the successful delete of
\* that Purchase
PurchaseCreateThenDelete ==
  /\ last.op = "purchaseCreate" /\ last.status = 201
  /\ last'.op = "purchaseDelete" /\ last'.status = 200 /\ last'.id = last.id

PurchaseRoundTripRestores ==
  /\ \A x \in DOMAIN pre.db.items :
       items'[x].openingStock = pre.db.items[x].openingStock
  /\ parties'[purchases[last.id].partyId].balance
       = BalanceBefore(pre.db.parties, purchases[last.id].partyId)
  /\ last.id \notin DOMAIN purchases'

\* a step of the single-delete route that removes a stored Purchase
PurchaseRemoved(u) ==
  /\ last'.op = "purchaseDelete"
  /\ u \in DOMAIN purchases /\ u \notin DOMAIN purchases'

\* the reversals of the Purchase u have been applied by the step
PurchaseReversalsRan(u) ==
  /\ \A x \in DOMAIN items :
       items'[x].openingStock
         = Max0(items[x].openingStock
                  - QuantityInBags(KgTaken(items, x, purchases[u].items)))
  /\ parties'[purchases[u].partyId].balance
       = parties[purchases[u].partyId].balance + purchases[u].totalAmount

\* C19: creating a Purchase and deleting it straight away restores every line
\* item's stock, Bardana's stock and the party's balance, and the Purchase
\* document is removed only once these reversals have run
C19_PurchaseRoundTrip ==
  [][/\ PurchaseCreateThenDelete => PurchaseRoundTripRestores
     /\ \A u \in DOMAIN purchases : PurchaseRemoved(u) => PurchaseReversalsRan(u)]_vars

C19_Witness ==
  /\ last.op = "purchaseDelete" /\ last.status = 200
  /\ pre.last.op = "purchaseCreate" /\ pre.last.status = 201 /\ pre.last.id = last.id
  /\ pre.last.lines = <<Line("i1", 90, 1, 90), Line("bd", 30, 1, 30)>>
  /\ pre.db.items["i1"].openingStock = Bags(5) /\ items["i1"].openingStock = Bags(2)
  /\ pre.db.items["bd"].openingStock = Bags(7) /\ items["bd"].openingStock = Bags(2)
  /\ pre.db.parties[pre.db.purchases[last.id].partyId].balance = -120
  /\ parties[pre.db.purchases[last.id].partyId].balance = 0
  /\ purchases = <<>>

\* ----------------------- properties: a line whose item does not resolve
\* the last request was a Sale or Purchase create that passed validation and
\* met no stored invoiceNo or billNo, one of its lines naming no stored Item
CreateWithMissingItem ==
  /\ last.op \in {"saleCreate", "purchaseCreate"}
  /\ LinesValid(last.lines)
  /\ last.op = "purchaseCreate" =>
       PurchaseRequestValid(last.lines) /\ ~DuplicateBillCreate
  /\ \E i \in DOMAIN last.lines : last.lines[i].id \notin DOMAIN pre.db.items

C20_WitnessPurchase ==
  /\ CreateWithMissingItem /\ last.op = "purchaseCreate"
  /\ pre.db.items["i1"].openingStock = Bags(2) /\ items["i1"].openingStock = Bags(4)
  /\ pre.db.items["bd"].openingStock = Bags(2) /\ items["bd"].openingStock = Bags(5)

\* ------------------------------------------------- a run of Sale creates
MaxSales == 9

RunLines == <<Line("i2", 30, 1, 30)>>

\* the stores after k POST /api/sales requests on an empty Sale store, each
\* for party "A" with RunLines
RECURSIVE SalesRun(_)
SalesRun(k) ==
  IF k = 0
  THEN [parties |-> <<>>, items |-> OneStore, sales |-> <<>>, nextId |-> 1]
  ELSE LET s == SalesRun(k - 1)
           invoiceNo == GenerateNextInvoiceNumber(s.sales)
           ps1 == FindOrCreateStore(s.parties, "A", s.nextId)
           pid == FindOrCreateId(s.parties, "A", s.nextId)
           sale == [invoiceNo |-> invoiceNo, partyId |-> pid,
                    items |-> RecalcLines(RunLines),
                    totalAmount |-> RecalcTotal(RunLines)]
       IN  IF InvoiceNoTaken(s.sales, invoiceNo)
           THEN [s EXCEPT !.parties = ps1, !.nextId = @ + 2]
           ELSE [parties |-> UpdateBalance(ps1, pid, sale.totalAmount, "add"),
                 items |-> DecreaseBardana(DecreaseLines(s.items, RunLines),
                                           TotalKg(RunLines)),
                 sales |-> s.sales @@ ((s.nextId + 1) :> sale),
                 nextId |-> s.nextId + 2]

InitInvoice ==
  \E k \in 0..MaxSales :
    LET s == SalesRun(k)
    IN  /\ parties = s.parties
        /\ items = s.items
        /\ sales = s.sales
        /\ purchases = <<>>
        /\ payments = <<>>
        /\ payIndex = TRUE
        /\ nextId = s.nextId
        /\ last = NoLast
        /\ pre = [db |-> [parties |-> s.parties, items |-> s.items, sales |-> s.sales,
                          purchases |-> <<>>, payments |-> <<>>],
                  last |-> NoLast]
        /\ calls = <<>>

RunSaleCreate ==
  \E k \in Keys, ls \in {RunLines, <<Line("i1", 30, 1, 30)>>, <<Line("i1", 60, 2, 120)>>} :
    SaleCreate(k, ls)

NextInvoice == RunSaleCreate

SpecInvoice == InitInvoice /\ [][NextInvoice]_vars

\* ------------------------------------------- properties: the invoiceNo
\* C21: in a run of Sale creates from an empty Sale store the k-th create
\* gets the decimal string of k as invoiceNo, which no stored Sale has, so
\* every create succeeds and stores a new Sale
C21_SequentialInvoiceNumbers ==
  (last.op = "saleCreate" /\ LinesValid(last.lines)) =>
    /\ last.status = 201
    /\ last.id \in DOMAIN sales /\ last.id \notin DOMAIN pre.db.sales
    /\ sales[last.id].invoiceNo = ToDigits(Cardinality(DOMAIN sales))
    /\ \A s \in DOMAIN pre.db.sales :
         pre.db.sales[s].invoiceNo # sales[last.id].invoiceNo

\* --------------------------------- properties: a rename to a stored billNo
\* the last request was a Purchase update to a billNo that is not the
\* Purchase's own and that another stored Purchase has
RenameToStoredBill ==
  /\ last.op = "purchaseUpdate" /\ last.id \in DOMAIN pre.db.purchases
  /\ last.bill # NoBill /\ last.bill # pre.db.purchases[last.id].billNo
  /\ \E u \in (DOMAIN pre.db.purchases) \ {last.id} :
       pre.db.purchases[u].billNo = last.bill

\* C22: a Purchase update to a billNo of another stored Purchase is rejected
\* and changes nothing: the Purchase, every Party's balance and every Item's
\* stock are as before
C22_RenameRejected ==
  RenameToStoredBill =>
    /\ last.status >= 400
    /\ purchases = pre.db.purchases
    /\ parties = pre.db.parties
    /\ items = pre.db.items

C22_Witness ==
  /\ RenameToStoredBill
  /\ last.status = 400
  /\ last.lines = <<Line("i1", 60, 2, 120)>>
  /\ pre.db.purchases[last.id].totalAmount = 60
  /\ pre.db.purchases[last.id].partyId \in DOMAIN parties

\* ------------------------------------------------------ item specification
ItemNames == {"Sugar", "sugar", "Bardana"}
ItemStocks == {-1, Bags(1)}
ItemIdsOf(its) == (DOMAIN its) \cup {NoKey}

ItemCreateAny ==
  \E n \in ItemNames, s \in ItemStocks, u \in BOOLEAN : ItemCreate(n, s, u)
ItemUpdateAny ==
  \E id \in ItemIdsOf(items), n \in {"Sugar", "Sack"}, s \in ItemStocks :
    ItemUpdate(id, n, s)
ItemDeleteAny == \E id \in ItemIdsOf(items) : ItemDelete(id)

NextItem == ItemCreateAny \/ ItemUpdateAny \/ ItemDeleteAny

SpecItem == InitWith(OneStore, <<>>, TRUE) /\ [][NextItem]_vars

\* ------------------------------------------ properties: the universal Item
UniversalIds(its) == {i \in DOMAIN its : its[i].isUniversal}

\* C24: in every state reached by item create, update and delete requests
\* exactly one Item has isUniversal = true
C24_OneUniversalItem == Cardinality(UniversalIds(items)) = 1

\* C30: once the Bardana item exists, the lookup by isUniversal = true and
\* productName = 'Bardana' finds it in every later state
C30_BardanaStays == [][HasBardana(items) => HasBardana(items')]_vars

\* ------------------------------------------------- requests that overlap
\* Each await of a handler ends a step; between two steps of one request the
\* steps of the others may run. last and pre are left as they were at the
\* start, so pre.db is the stores before the first of the requests.
MaxCalls == 3

CanCall == Len(calls) < MaxCalls

Call(op, pc, status, id, key, bill, lines, amount, operation, seen) ==
  [op |-> op, pc |-> pc, status |-> status, id |-> id, key |-> key, bill |-> bill,
   lines |-> lines, amount |-> amount, operation |-> operation, seen |-> seen,
   line |-> 0]

Pending(c, op, pc) == c \in DOMAIN calls /\ calls[c].op = op /\ calls[c].pc = pc

Finish(c, status) == calls' = [calls EXCEPT ![c].pc = "done", ![c].status = status]

\* initializeBardana at startup and POST /api/items/initialize-bardana, up to
\* the answer of Item.findOne({isUniversal: true, productName: 'Bardana'}):
\* found, the run ends; not found, the new Item is still to be saved
InitializeBardanaFind(kind) ==
  /\ CanCall
  /\ calls' = Append(calls,
                IF HasBardana(items)
                THEN Call("initializeBardana", "done", 200, NoId, kind, NoBill, <<>>, 0, NoKey, 0)
                ELSE Call("initializeBardana", "save", 0, NoId, kind, NoBill, <<>>, 0, NoKey, 0))
  /\ UNCHANGED <<parties, items, sales, purchases, payments, payIndex, nextId, last, pre>>

\* faulty variant: productName has no unique index
InitializeBardanaSaveUnindexed(c) ==
  /\ Pending(c, "initializeBardana", "save")
  /\ nextId <= Len(ItemIds)
  /\ items' = items @@ (ItemIds[nextId] :>
                [productName |-> "Bardana", openingStock |-> 0, isUniversal |-> TRUE])
  /\ nextId' = nextId + 1
  /\ Finish(c, 201)
  /\ UNCHANGED <<parties, sales, purchases, payments, payIndex, last, pre>>

\* bardanaItem.save(): the unique index on productName fails the save of a
\* second Item named Bardana; the route answers 500, startup logs the error
InitializeBardanaSave(c) ==
  /\ Pending(c, "initializeBardana", "save")
  /\ nextId <= Len(ItemIds)
  /\ IF NameIndexed(items, "Bardana")
     THEN /\ Finish(c, 500)
          /\ UNCHANGED <<items, nextId>>
     ELSE /\ items' = items @@ (ItemIds[nextId] :>
                        [productName |-> "Bardana", openingStock |-> 0, isUniversal |-> TRUE])
          /\ nextId' = nextId + 1
          /\ Finish(c, 201)
  /\ UNCHANGED <<parties, sales, purchases, payments, payIndex, last, pre>>

\* ------------------------------------------- initializeBardana specification
\* the item store found at startup: without Bardana (first start) or with it
StartupStores ==
  {Without(OneStore, "bd"), OneStore, ItemStore(Bags(2), 0), ItemStore(Bags(2), Bags(5))}

InitBardana == \E its \in StartupStores : InitWith(its, <<>>, TRUE)

InitializeBardanaFindAny == \E kind \in {"startup", "route"} : InitializeBardanaFind(kind)
InitializeBardanaSaveAny == \E c \in DOMAIN calls : InitializeBardanaSave(c)

NextBardana == InitializeBardanaFindAny \/ InitializeBardanaSaveAny

SpecBardana == InitBardana /\ [][NextBardana]_vars

\* the step is a run that found Bardana present
FoundPresent == Len(calls') > Len(calls) /\ calls'[Len(calls')].status = 200

C23_WitnessStock ==
  /\ Len(calls) > 0 /\ calls[1].status = 200
  /\ HasBardana(items) /\ items[FindBardana(items)].openingStock = Bags(5)

\* ---------------------------------------------- Party.updateBalance, by step
\* Party.updateBalance up to the answer of findById: the party is not found
\* and the call throws, or its balance is read into the document
UpdateBalanceFind(id, amount, operation) ==
  /\ CanCall
  /\ calls' = Append(calls,
                IF UpdateBalanceFails(parties, id)
                THEN Call("updateBalance", "done", 404, id, NoKey, NoBill, <<>>, amount, operation, 0)
                ELSE Call("updateBalance", "save", 0, id, NoKey, NoBill, <<>>, amount,
                          operation, parties[id].balance))
  /\ UNCHANGED <<parties, items, sales, purchases, payments, payIndex, nextId, last, pre>>

\* party.save(): the balance computed from the balance read is written
UpdateBalanceSave(c) ==
  LET call == calls[c]
      read == [parties EXCEPT ![call.id].balance = call.seen]
  IN
  /\ Pending(c, "updateBalance", "save")
  /\ call.id \in DOMAIN parties
  /\ parties' = UpdateBalance(read, call.id, call.amount, call.operation)
  /\ Finish(c, 200)
  /\ UNCHANGED <<items, sales, purchases, payments, payIndex, nextId, last, pre>>

\* --------------------------------------------------- balance specification
StartBalances == {0, 50}

InitBalance ==
  \E b \in StartBalances :
    LET ps == (1 :> [key |-> "A", balance |-> b])
    IN  /\ parties = ps
        /\ items = OneStore
        /\ sales = <<>>
        /\ purchases = <<>>
        /\ payments = <<>>
        /\ payIndex = TRUE
        /\ nextId = 2
        /\ last = NoLast
        /\ pre = [db |-> [parties |-> ps, items |-> OneStore, sales |-> <<>>,
                          purchases |-> <<>>, payments |-> <<>>],
                  last |-> NoLast]
        /\ calls = <<>>

UpdateBalanceFindAny ==
  \E id \in IdsOf(parties), a \in {30, 60}, o \in {"add", "subtract"} :
    UpdateBalanceFind(id, a, o)
UpdateBalanceSaveAny == \E c \in DOMAIN calls : UpdateBalanceSave(c)

NextBalance == UpdateBalanceFindAny \/ UpdateBalanceSaveAny

SpecBalance == InitBalance /\ [][NextBalance]_vars

\* ----------------------------------------- properties: overlapping updates
\* two requests, each an updateBalance 'add' on the same party, both completed
TwoAddsDone(c1, c2) ==
  /\ Len(calls) = 2 /\ c1 = 1 /\ c2 = 2
  /\ \A c \in {c1, c2} :
       /\ calls[c].op = "updateBalance" /\ calls[c].operation = "add"
       /\ calls[c].pc = "done" /\ calls[c].status = 200
  /\ calls[c1].id = calls[c2].id

\* C25: two overlapping updateBalance 'add' calls on one party that both
\* complete leave the balance at the initial balance + a1 + a2
C25_NoLostUpdate ==
  \A c1, c2 \in DOMAIN calls :
    TwoAddsDone(c1, c2) =>
      parties[calls[c1].id].balance =
        pre.db.parties[calls[c1].id].balance + calls[c1].amount + calls[c2].amount

\* ------------------------------------------------- Purchase create, by step
Others == <<parties, items, sales, purchases, payments, payIndex, nextId, last, pre>>

\* the number of Purchase creates that overlap
MaxCreates == 2

\* POST /api/purchases up to the answer of Purchase.isBillNumberExists
PurchaseCreateCheck(billNo, key, lines) ==
  /\ Len(calls) < MaxCreates
  /\ calls' = Append(calls,
                IF ~PurchaseRequestValid(lines) \/ IsBillNumberExists(purchases, billNo)
                THEN Call("purchaseCreate", "done", 400, NoId, key, billNo, lines, 0, NoKey, 0)
                ELSE Call("purchaseCreate", "party", 0, NoId, key, billNo, lines, 0, NoKey, 0))
  /\ UNCHANGED Others

\* Party.findOrCreate: findOne
PurchaseCreateFindParty(c) ==
  /\ Pending(c, "purchaseCreate", "party")
  /\ calls' = IF FindParty(parties, calls[c].key) # NoId
              THEN [calls EXCEPT ![c].pc = "save", ![c].id = FindParty(parties, calls[c].key)]
              ELSE [calls EXCEPT ![c].pc = "partySave"]
  /\ UNCHANGED Others

\* Party.findOrCreate: party.save() of the new Party
PurchaseCreateSaveParty(c) ==
  /\ Pending(c, "purchaseCreate", "partySave")
  /\ parties' = parties @@ (nextId :> [key |-> calls[c].key, balance |-> DefaultBalance])
  /\ nextId' = nextId + 1
  /\ calls' = [calls EXCEPT ![c].pc = "save", ![c].id = nextId]
  /\ UNCHANGED <<items, sales, purchases, payments, payIndex, last, pre>>

\* faulty variant: billNo has no unique index
PurchaseCreateSaveUnindexed(c) ==
  LET call == calls[c]
      purchase == [billNo |-> call.bill, partyId |-> call.id,
                   items |-> RecalcLines(call.lines), totalAmount |-> RecalcTotal(call.lines)]
  IN
  /\ Pending(c, "purchaseCreate", "save")
  /\ IF ~LinesValid(call.lines)
     THEN /\ Finish(c, 400)
          /\ UNCHANGED <<purchases, nextId>>
     ELSE /\ purchases' = purchases @@ (nextId :> purchase)
          /\ nextId' = nextId + 1
          /\ calls' = [calls EXCEPT ![c].pc = "balance", ![c].amount = purchase.totalAmount]
  /\ UNCHANGED <<parties, items, sales, payments, payIndex, last, pre>>

\* purchase.save(): schema validation, then the unique index on billNo
PurchaseCreateSave(c) ==
  LET call == calls[c]
      purchase == [billNo |-> call.bill, partyId |-> call.id,
                   items |-> RecalcLines(call.lines), totalAmount |-> RecalcTotal(call.lines)]
  IN
  /\ Pending(c, "purchaseCreate", "save")
  /\ IF ~LinesValid(call.lines)
     THEN /\ Finish(c, 400)
          /\ UNCHANGED <<purchases, nextId>>
     ELSE IF BillNoTaken(purchases, call.bill, NoId)
     THEN /\ Finish(c, 500)
          /\ UNCHANGED <<purchases, nextId>>
     ELSE /\ purchases' = purchases @@ (nextId :> purchase)
          /\ nextId' = nextId + 1
          /\ calls' = [calls EXCEPT ![c].pc = "balance", ![c].amount = purchase.totalAmount]
  /\ UNCHANGED <<parties, items, sales, payments, payIndex, last, pre>>

\* Party.updateBalance(party._id, purchase.totalAmount, 'subtract'): findById
PurchaseCreateBalanceFind(c) ==
  /\ Pending(c, "purchaseCreate", "balance")
  /\ IF UpdateBalanceFails(parties, calls[c].id)
     THEN Finish(c, 500)
     ELSE calls' = [calls EXCEPT ![c].pc = "balanceSave",
                                 ![c].seen = parties[calls[c].id].balance]
  /\ UNCHANGED Others

\* the pc after line k: the next line, or the Bardana block
AfterLine(call, k) == IF k >= Len(call.lines) THEN "bardana" ELSE "item"

\* Party.updateBalance: party.save()
PurchaseCreateBalanceSave(c) ==
  LET call == calls[c]
      read == [parties EXCEPT ![call.id].balance = call.seen]
  IN
  /\ Pending(c, "purchaseCreate", "balanceSave")
  /\ call.id \in DOMAIN parties
  /\ parties' = UpdateBalance(read, call.id, call.amount, "subtract")
  /\ calls' = [calls EXCEPT ![c].pc = AfterLine(call, 0), ![c].line = 1]
  /\ UNCHANGED <<items, sales, purchases, payments, payIndex, nextId, last, pre>>

\* the stock loop: Item.findById(purchaseItem.id); a line whose item is not
\* found is passed over
PurchaseCreateItemFind(c) ==
  LET call == calls[c]
      id == call.lines[call.line].id
  IN
  /\ Pending(c, "purchaseCreate", "item")
  /\ calls' = IF id \in DOMAIN items
              THEN [calls EXCEPT ![c].pc = "itemSave", ![c].seen = items[id].openingStock]
              ELSE [calls EXCEPT ![c].pc = AfterLine(call, call.line), ![c].line = @ + 1]
  /\ UNCHANGED Others

\* the stock loop: item.openingStock += quantityInBags; item.save()
PurchaseCreateItemSave(c) ==
  LET call == calls[c]
      id == call.lines[call.line].id
      read == [items EXCEPT ![id].openingStock = call.seen]
  IN
  /\ Pending(c, "purchaseCreate", "itemSave")
  /\ id \in DOMAIN items
  /\ items' = IncreaseStock(read, id, call.lines[call.line].quantity)
  /\ calls' = [calls EXCEPT ![c].pc = AfterLine(call, call.line), ![c].line = @ + 1]
  /\ UNCHANGED <<parties, sales, purchases, payments, payIndex, nextId, last, pre>>

\* the Bardana block: Item.findOne({isUniversal: true, productName: 'Bardana'})
PurchaseCreateBardanaFind(c) ==
  /\ Pending(c, "purchaseCreate", "bardana")
  /\ IF ~HasBardana(items)
     THEN Finish(c, 201)
     ELSE calls' = [calls EXCEPT ![c].pc = "bardanaSave",
                                 ![c].seen = items[FindBardana(items)].openingStock]
  /\ UNCHANGED Others

\* the Bardana block: bardanaItem.openingStock += bags; bardanaItem.save()
PurchaseCreateBardanaSave(c) ==
  LET call == calls[c]
      b == FindBardana(items)
      read == [items EXCEPT ![b].openingStock = call.seen]
  IN
  /\ Pending(c, "purchaseCreate", "bardanaSave")
  /\ HasBardana(items)
  /\ items' = IncreaseStock(read, b, TotalKg(call.lines))
  /\ Finish(c, 201)
  /\ UNCHANGED <<parties, sales, purchases, payments, payIndex, nextId, last, pre>>

\* ------------------------------------- overlapping creates specification
BillNos == {"b1", "b2"}

PurchaseCreateCheckAny ==
  \E b \in BillNos, k \in Keys : PurchaseCreateCheck(b, k, <<Line("i1", 30, 2, 60)>>)
PurchaseCreateFindPartyAny == \E c \in DOMAIN calls : PurchaseCreateFindParty(c)
PurchaseCreateSavePartyAny == \E c \in DOMAIN calls : PurchaseCreateSaveParty(c)
PurchaseCreateSaveAny == \E c \in DOMAIN calls : PurchaseCreateSave(c)
PurchaseCreateBalanceFindAny == \E c \in DOMAIN calls : PurchaseCreateBalanceFind(c)
PurchaseCreateBalanceSaveAny == \E c \in DOMAIN calls : PurchaseCreateBalanceSave(c)
PurchaseCreateItemFindAny == \E c \in DOMAIN calls : PurchaseCreateItemFind(c)
PurchaseCreateItemSaveAny == \E c \in DOMAIN calls : PurchaseCreateItemSave(c)
PurchaseCreateBardanaFindAny == \E c \in DOMAIN calls : PurchaseCreateBardanaFind(c)
PurchaseCreateBardanaSaveAny == \E c \in DOMAIN calls : PurchaseCreateBardanaSave(c)

NextOverlap ==
  \/ PurchaseCreateCheckAny
  \/ PurchaseCreateFindPartyAny
  \/ PurchaseCreateSavePartyAny
  \/ PurchaseCreateSaveAny
  \/ PurchaseCreateBalanceFindAny
  \/ PurchaseCreateBalanceSaveAny
  \/ PurchaseCreateItemFindAny
  \/ PurchaseCreateItemSaveAny
  \/ PurchaseCreateBardanaFindAny
  \/ PurchaseCreateBardanaSaveAny

SpecOverlap == InitWith(OneStore, <<>>, TRUE) /\ [][NextOverlap]_vars

\* ------------------------------------------ properties: overlapping creates
WithBill(pu, b) == {p \in DOMAIN pu : pu[p].billNo = b}

\* the request that takes this step: the new one, or the one whose entry changes
Stepping(c) ==
  /\ c \in DOMAIN calls'
  /\ (c \in DOMAIN calls => calls'[c] # calls[c])

\* the request has not stored its Purchase: it is before the end of its save,
\* or it has ended in an error
NotStored(call) ==
  \/ call.pc \in {"party", "partySave", "save"}
  \/ call.pc = "done" /\ call.status >= 400

SameBalances == \A p \in DOMAIN parties : parties'[p].balance = parties[p].balance

\* C26: of Purchase creates with the same billNo that overlap, at most one
\* Purchase with the billNo is ever stored, and a request that does not store
\* its Purchase changes no Party balance and no stock of an Item or of Bardana
C26_OneWinner ==
  [][ /\ \A b \in BillNos : Cardinality(WithBill(purchases', b)) <= 1
      /\ \A c \in DOMAIN calls' :
           (Stepping(c) /\ NotStored(calls'[c])) => (SameBalances /\ items' = items)
    ]_vars

\* two creates with billNo b1 that both passed the billNo test: the first is
\* stored and has run to its end, the second failed at the save
C26_Witness ==
  /\ Len(calls) >= 2
  /\ calls[1].bill = "b1" /\ calls[2].bill = "b1"
  /\ calls[1].pc = "done" /\ calls[1].status = 201
  /\ calls[2].pc = "done" /\ calls[2].status = 500
  /\ Cardinality(WithBill(purchases, "b1")) = 1
  /\ items["i1"].openingStock = pre.db.items["i1"].openingStock + QuantityInBags(30)
  /\ items["bd"].openingStock = pre.db.items["bd"].openingStock + QuantityInBags(30)
  /\ parties[calls[1].id].balance = DefaultBalance - 60

\* --------------------------------------- properties: a delete that fails
\* C27: a Sale or Purchase delete that is answered with an error leaves the
\* documents, every Item's stock (Bardana's included) and every Party's
\* balance as they were before the request
C27_FailedDeleteChangesNothing ==
  (last.op \in {"saleDelete", "purchaseDelete"} /\ last.status >= 400) =>
    /\ sales = pre.db.sales
    /\ purchases = pre.db.purchases
    /\ items = pre.db.items
    /\ parties = pre.db.parties

\* ------------------------------------------- rate change specification
\* a Purchase of 90 kg of i1, Sales that take stock of i1 away, and Purchase
\* updates that send the stored line with another rate or another quantity
RatePurchaseCreate ==
  \E k \in Keys : PurchaseCreate("b1", k, <<Line("i1", 90, 1, 90)>>)
RateSaleCreate ==
  \E k \in Keys, kg \in {30, 150} : SaleCreate(k, <<Line("i1", kg, 1, kg)>>)
RatePurchaseUpdate ==
  \E id \in IdsOf(purchases), q \in {90, 120}, r \in {1, 2} :
    PurchaseUpdate(id, NoBill, TRUE, <<Line("i1", q, r, q * r)>>)

NextRate == RatePurchaseCreate \/ RateSaleCreate \/ RatePurchaseUpdate

SpecRate == Init /\ [][NextRate]_vars

\* ------------------------------------------------ properties: a rate change
\* the lines sent differ from the stored lines in a rate and in no id and no
\* quantity
OnlyRateChanged(originalItems, lines) ==
  /\ Len(lines) = Len(originalItems)
  /\ \A i \in DOMAIN lines :
       /\ lines[i].id = originalItems[i].id
       /\ lines[i].quantity = originalItems[i].quantity
  /\ \E i \in DOMAIN lines : lines[i].rate # originalItems[i].rate

\* C28: a Purchase update that changes only the rate of its lines leaves the
\* openingStock of every Item and of Bardana unchanged, whatever the stock is
C28_RateChangeKeepsStock ==
  ( /\ last.op = "purchaseUpdate" /\ last.status = 200
    /\ last.id \in DOMAIN pre.db.purchases
    /\ last.lines # <<>>
    /\ OnlyRateChanged(pre.db.purchases[last.id].items, last.lines) )
    => items = pre.db.items

\* ------------------------------------ properties: bulk delete, one by one
\* DELETE /api/purchases/:id as a function of the stores: not found, nothing
\* is written; Party.updateBalance throws, the stock is reversed and the
\* Purchase stays; otherwise stock, balance and the removal
DeleteOne(st, id) ==
  IF id \notin DOMAIN st.purchases THEN st
  ELSE LET purchase == st.purchases[id]
           its2 == ReversePurchaseStock(st.items, purchase)
       IN  IF purchase.partyId # NoId /\ UpdateBalanceFails(st.parties, purchase.partyId)
           THEN [st EXCEPT !.items = its2]
           ELSE [parties |-> IF purchase.partyId # NoId
                             THEN UpdateBalance(st.parties, purchase.partyId,
                                                purchase.totalAmount, "add")
                             ELSE st.parties,
                 items |-> its2,
                 purchases |-> Without(st.purchases, id)]

\* one delete request after the other, in the given order
RECURSIVE OneByOne(_, _)
OneByOne(st, order) ==
  IF order = <<>> THEN st ELSE OneByOne(DeleteOne(st, Head(order)), Tail(order))

\* DeleteOne is what the single delete request does
DeleteOneIsPurchaseDelete ==
  last.op = "purchaseDelete" =>
    [parties |-> parties, items |-> items, purchases |-> purchases]
      = DeleteOne([parties |-> pre.db.parties, items |-> pre.db.items,
                   purchases |-> pre.db.purchases], last.id)

\* the stores after POST /api/purchases of 30 kg of i1 at rate 2 under b1 for
\* party A and under b2 for party B, on OneStore
TwoPurchases ==
  [parties |-> (1 :> [key |-> "A", balance |-> DefaultBalance - 60]) @@
               (3 :> [key |-> "B", balance |-> DefaultBalance - 60]),
   items |-> ItemStore(Bags(4), Bags(4)),
   sales |-> <<>>,
   purchases |-> (2 :> [billNo |-> "b1", partyId |-> 1,
                        items |-> <<Line("i1", 30, 2, 60)>>, totalAmount |-> 60]) @@
                 (4 :> [billNo |-> "b2", partyId |-> 3,
                        items |-> <<Line("i1", 30, 2, 60)>>, totalAmount |-> 60]),
   payments |-> <<>>]

\* the state in which the two creates have led to these stores
TwoPurchasesReached == db = TwoPurchases

InitBulk ==
  /\ parties = TwoPurchases.parties
  /\ items = TwoPurchases.items
  /\ sales = <<>>
  /\ purchases = TwoPurchases.purchases
  /\ payments = <<>>
  /\ payIndex = TRUE
  /\ nextId = 5
  /\ last = NoLast
  /\ pre = [db |-> TwoPurchases, last |-> NoLast]
  /\ calls = <<>>

NextBulk == PartyDeleteAny \/ PurchaseDeleteAny \/ PurchaseBulkDeleteAny

SpecBulk == InitBulk /\ [][NextBulk]_vars

\* C29: a bulk Purchase delete of a set of ids leaves the Item stocks, the
\* Bardana stock, the Party balances and the stored Purchases as deleting the
\* same ids one at a time, in the order found, leaves them
C29_BulkAsOneByOne ==
  [][ \A ids \in IdSetsOf(purchases) :
        PurchaseBulkDelete(ids) =>
          [parties |-> parties', items |-> items', purchases |-> purchases']
            = OneByOne([parties |-> parties, items |-> items, purchases |-> purchases],
                       InOrder(ids)) ]_vars

====
